---- MODULE Spec2Model ----
(***************************************************************************)
(* Model of src/src/LivepeerDashboard.jsx (latest revision of the          *)
(* component, lines 1450-2495): the React state of LivepeerDashboard, the  *)
(* asynchronous lookups started by loadDelegator, the comparison load      *)
(* started by loadOrchestrators and its two background fetches.            *)
(*                                                                         *)
(* Execution model: JavaScript is single threaded; a handler or a promise  *)
(* continuation runs to completion, its setState calls are applied as one  *)
(* batch, and the effect of lines 1845-1849 runs after the render of that  *)
(* batch.  One action of the model is one such run.  The only suspension   *)
(* points are the network requests, whose answers arrive in any order.     *)
(***************************************************************************)
EXTENDS Integers, Sequences, FiniteSets, TLC

\* ---------------------------------------------------------------- bounds
\* number of loadDelegator calls of one session
MaxLookups == 2
\* number of loadOrchestrators calls that reach the dispatch of line 1757
MaxOrchLoads == 2
\* number of bond events, and of claims, a response lists
MaxBondEvents == 2
MaxClaims == 2

\* number of hex digits the pattern of line 1663 asks for
AddrHexLen == 40

\* ------------------------------------------------------- strings as lists
\* A string is a sequence of one-character strings; "" is <<>>.
Rep(c, k) == [j \in 1..k |-> c]

\* String.prototype.toLowerCase, on the characters the inputs use
LowerChar(c) ==
  CASE c = "A" -> "a"
    [] c = "X" -> "x"
    [] c = "E" -> "e"
    [] c = "T" -> "t"
    [] c = "H" -> "h"
    [] OTHER -> c

toLowerCase(s) == [j \in 1..Len(s) |-> LowerChar(s[j])]

IsSpace(c) == c = " "

RECURSIVE TrimStart(_)
TrimStart(s) ==
  IF s = <<>> THEN <<>>
  ELSE IF IsSpace(Head(s)) THEN TrimStart(Tail(s)) ELSE s

RECURSIVE TrimEnd(_)
TrimEnd(s) ==
  IF s = <<>> THEN <<>>
  ELSE IF IsSpace(s[Len(s)]) THEN TrimEnd(SubSeq(s, 1, Len(s) - 1)) ELSE s

\* String.prototype.trim
trim(s) == TrimEnd(TrimStart(s))

\* String.prototype.endsWith
endsWith(s, suffix) ==
  /\ Len(s) >= Len(suffix)
  /\ SubSeq(s, Len(s) - Len(suffix) + 1, Len(s)) = suffix

DotEth == <<".", "e", "t", "h">>

HexDigits == {"0", "1", "2", "3", "4", "5", "6", "7", "8", "9",
              "a", "b", "c", "d", "e", "f"}

\* a test that drops the {40} of the pattern
IsAddressAnyLength(addr) ==
  /\ Len(addr) >= 2
  /\ addr[1] = "0"
  /\ addr[2] = "x"
  /\ \A j \in 3..Len(addr) : addr[j] \in HexDigits

\* /^0x[a-f0-9]{40}$/.test(addr)
IsAddress(addr) ==
  /\ Len(addr) = 2 + AddrHexLen
  /\ addr[1] = "0"
  /\ addr[2] = "x"
  /\ \A j \in 3..Len(addr) : addr[j] \in HexDigits

\* null and undefined
Null == [null |-> TRUE]
IsNull(x) == "null" \in DOMAIN x

\* ------------------------------------------------------------- numbers
\* A JavaScript number is modelled by the rational it stands for, n / d in
\* lowest terms with d > 0; d = 0 stands for the values that are not finite
\* (Infinity, -Infinity, NaN).  Arithmetic is exact.
Abs(k) == IF k < 0 THEN -k ELSE k

RECURSIVE GCD(_, _)
GCD(a, b) == IF b = 0 THEN a ELSE GCD(b, a % b)

NotFinite == [n |-> 1, d |-> 0]
IsFinite(x) == x.d # 0

Ratio(n, d) ==
  IF d = 0 THEN NotFinite
  ELSE LET g == GCD(Abs(n), Abs(d))
           sgn == IF d < 0 THEN -1 ELSE 1
       IN [n |-> sgn * (n \div g), d |-> sgn * (d \div g)]

Num(k) == [n |-> k, d |-> 1]

\* the member of a set of one member
TheOne(S) == CHOOSE r \in S : TRUE

\* a + b, a - b, a * b; x and y are the values of the operands
Plus(a, b) ==
  TheOne({ IF IsFinite(x) /\ IsFinite(y)
           THEN Ratio(x.n * y.d + y.n * x.d, x.d * y.d)
           ELSE NotFinite : x \in {a}, y \in {b} })
Minus(a, b) ==
  TheOne({ IF IsFinite(x) /\ IsFinite(y)
           THEN Ratio(x.n * y.d - y.n * x.d, x.d * y.d)
           ELSE NotFinite : x \in {a}, y \in {b} })
Times(a, b) ==
  TheOne({ IF IsFinite(x) /\ IsFinite(y)
           THEN Ratio(x.n * y.n, x.d * y.d)
           ELSE NotFinite : x \in {a}, y \in {b} })

\* a / b: a division by zero gives Infinity or NaN, it does not throw
Over(a, b) ==
  TheOne({ IF IsFinite(x) /\ IsFinite(y)
           THEN Ratio(x.n * y.d, x.d * y.n)
           ELSE NotFinite : x \in {a}, y \in {b} })

\* a > b (false when one of them is NaN)
Greater(a, b) == IsFinite(a) /\ IsFinite(b) /\ a.n * b.d > b.n * a.d

\* Math.max(a, b)
MathMax(a, b) ==
  IF IsFinite(a) /\ IsFinite(b) THEN (IF Greater(b, a) THEN b ELSE a)
  ELSE NotFinite

RECURSIVE Pow10(_)
Pow10(k) == IF k = 0 THEN 1 ELSE 10 * Pow10(k - 1)

\* +x.toFixed(k): x rounded to k decimals, halves away from zero
toFixed(x, k) ==
  IF ~IsFinite(x) THEN NotFinite
  ELSE LET sgn == IF x.n < 0 THEN -1 ELSE 1
           scaled == (2 * Abs(x.n) * Pow10(k) + x.d) \div (2 * x.d)
       IN Ratio(sgn * scaled, Pow10(k))

\* Number(v) of a decimal the index returns; Number(null) is 0
Number(v) == IF IsNull(v) THEN Num(0) ELSE v

\* x || 0 of lines 1859-1862: 0 and NaN give 0
OrZero(x) == IF IsFinite(x) THEN x ELSE Num(0)

\* ------------------------------------------------------------ the inputs
AddrA == <<"0", "x">> \o Rep("a", AddrHexLen)
AddrB == <<"0", "x">> \o Rep("b", AddrHexLen)

\* what the user can have typed when loadDelegator(inputVal) runs
InAddrA    == <<" ", "0", "X">> \o Rep("A", AddrHexLen) \o <<" ">>
InAddrB    == AddrB
InShort    == <<"0", "x">> \o Rep("a", AddrHexLen - 1)
InUpperEth == <<"n", ".", "E", "T", "H">>
InName     == <<"n", ".", "e", "t", "h">>
InEmpty    == <<>>
InBlank    == <<" ", " ">>

Inputs == {InAddrA, InAddrB, InShort, InUpperEth, InName, InEmpty, InBlank}

\* ---------------------------------------------------------- the messages
MsgNone     == ""
MsgInvalid  == "Please enter a valid Ethereum address (0x...) or ENS name (.eth)"
MsgENS      == "Could not resolve ENS name \"n.eth\". Make sure it's a valid .eth name."
MsgNotFound == "No delegator found at this address. Make sure the wallet has delegated LPT on Livepeer (Arbitrum)."
MsgGraphQL  == "json.errors[0].message"
MsgFetch    == "fetch rejected"

\* ------------------------------------------------------------- the state
VARIABLES
  wallet,        \* useState("")        line 1625
  loading,       \* useState(false)     line 1627
  error,         \* useState("")        line 1628
  data,          \* useState(null)      line 1629
  tab,           \* useState("dash")    line 1630
  orchData,      \* useState(null)      line 1633
  orchLoading,   \* useState(false)     line 1634
  orchFilter,    \* useState("working") line 1635
  orchSort,      \* useState({ col: "rewardAPY", dir: "desc" })  line 1636
  ensNames,      \* useState({})        line 1637
  protocolData,  \* useState(null)      line 1638
  simStake,      \* useState(0)         line 1639
  simCustom,     \* useState(false)     line 1640
  url,           \* the "address" and "wallet" parameters of window.location
  mounted,       \* whether the effect of line 1643 has run
  lookups,       \* the calls of loadDelegator: the locals of each one
  calls,         \* how many calls of loadDelegator were made
  orchLoad,      \* the call of loadOrchestrators awaiting line 1757, if any
  orchLoads,     \* how many calls of loadOrchestrators reached line 1757
  bg,            \* the background fetches of lines 1812 and 1819 in flight
  resolvedLast,  \* history: the lookup that stored its data last since the
                 \* latest start of a lookup, 0 if none did
  last           \* history: the handler or continuation that ran last

vars == <<wallet, loading, error, data, tab, orchData, orchLoading, ensNames,
          protocolData, simStake, simCustom, url, lookups, calls,
          orchLoad, orchLoads, bg, resolvedLast, last, mounted, orchFilter,
          orchSort>>

\* the value of last after a step no claim has to recognise
Other == [op |-> "other"]

\* the chips of line 1981
Tabs == {"dash", "earn", "hist", "compare"}

\* the three queries of the Promise.all of lines 1667-1671
Queries == {"delegator", "earnings", "events"}

\* how a request can end: data, an errors list, or a rejected fetch
Outcomes == {"ok", "errors", "reject"}

\* gqlFetch (lines 1508-1517): returns json.data, or throws when the fetch is
\* rejected or json.errors is set
gqlFetch(outcome, body) ==
  IF outcome = "ok" THEN [throws |-> FALSE, data |-> body]
  ELSE [throws |-> TRUE,
        message |-> IF outcome = "errors" THEN MsgGraphQL ELSE MsgFetch]

\* a resolveENS without the throw of line 1522
resolveENSUnchecked(outcome, answer) ==
  LET got == gqlFetch(outcome, answer)
  IN IF got.throws THEN got ELSE [throws |-> FALSE, addr |-> got.data]

\* resolveENS (lines 1519-1524): the resolved address, or an Error
resolveENS(outcome, answer) ==
  LET got == gqlFetch(outcome, answer)
  IN IF got.throws THEN got
     ELSE IF got.data = <<>> THEN [throws |-> TRUE, message |-> MsgENS]
     ELSE [throws |-> FALSE, addr |-> got.data]

\* {}: no address has a name
NoNames == [a \in {} |-> <<>>]

\* the forEach of lines 1531-1536: per address the first of its shortest
\* names; a domain without name or without resolved address is skipped.
\* (The ids of the model are atoms, which toLowerCase leaves as they are.)
RECURSIVE NamesOf(_)
NamesOf(domains) ==
  IF domains = <<>> THEN NoNames
  ELSE LET names == NamesOf(SubSeq(domains, 1, Len(domains) - 1))
           d == domains[Len(domains)]
       IN IF d.name = <<>> \/ IsNull(d.resolvedAddress) THEN names
          ELSE LET addr == d.resolvedAddress.id
               IN IF addr \notin DOMAIN names \/ Len(d.name) < Len(names[addr])
                  THEN [a \in DOMAIN names \cup {addr} |->
                          IF a = addr THEN d.name ELSE names[a]]
                  ELSE names

\* batchResolveENS (lines 1526-1539): the names found, {} when the request
\* fails (the catch of line 1537)
batchResolveENS(outcome, domains) ==
  LET got == gqlFetch(outcome, domains)
  IN IF got.throws THEN NoNames ELSE NamesOf(got.data)

NoResp == [st |-> "none"]
Pending == [st |-> "pending"]

\* the responses the index can give lookup i for address addr; "of" names
\* the response, so that what is stored can be traced to it
DelegatorBodies(i, addr) ==
  { [delegator |-> Null],
    [delegator |-> [id |-> addr, bondedAmount |-> Num(5), of |-> i]] }

\* one claim, whose delegate names the response
EarningsBodies(i) ==
  { [earningsClaimedEvents |->
       << [timestamp |-> 1, startRound |-> 1, endRound |-> [id |-> 1],
           rewardTokens |-> Num(1), fees |-> Num(0),
           delegate |-> [id |-> i]] >>] }

\* one bond event, whose round names the response
EventsBodies(i) ==
  { [bondEvents |->
       << [timestamp |-> 2, round |-> [id |-> i],
           additionalAmount |-> Num(5), oldDelegate |-> Null] >>,
     unbondEvents |-> <<>>, rebondEvents |-> <<>>,
     withdrawStakeEvents |-> <<>>, withdrawFeesEvents |-> <<>>] }

Bodies(i, addr, query) ==
  CASE query = "delegator" -> DelegatorBodies(i, addr)
    [] query = "earnings" -> EarningsBodies(i)
    [] query = "events" -> EventsBodies(i)

\* the address the name service can return for a name (<<>>: no domain)
ENSAnswers == {AddrB, <<>>}

\* the locals of a call of loadDelegator: where it stands (pc), the name it
\* resolves (input), addr, the state of resolveENS (ens), whether lines
\* 1667-1671 ran (sent) and the three requests of Promise.all (q)
IdleLookup ==
  [pc |-> "idle", input |-> <<>>, addr |-> <<>>, ens |-> "none",
   sent |-> FALSE, q |-> [x \in Queries |-> NoResp]]

\* a call that returned: its locals are gone; what it did is kept
Returned(l, how) == [IdleLookup EXCEPT !.pc = how, !.ens = l.ens, !.sent = l.sent]

InFlight(i) == lookups[i].pc \in {"ens", "fetch"}

\* the query strings the page can be opened with (<<>>: parameter absent
\* or empty)
URLs ==
  { [address |-> <<>>, wallet |-> <<>>],
    [address |-> InAddrA, wallet |-> AddrB],
    [address |-> <<>>, wallet |-> InShort] }

Init ==
  /\ wallet = <<>>
  /\ loading = FALSE
  /\ error = MsgNone
  /\ data = Null
  /\ tab = "dash"
  /\ orchData = Null
  /\ orchLoading = FALSE
  /\ orchFilter = "working"
  /\ orchSort = [col |-> "rewardAPY", dir |-> "desc"]
  /\ ensNames = NoNames
  /\ protocolData = Null
  /\ simStake = Num(0)
  /\ simCustom = FALSE
  /\ url \in URLs
  /\ mounted = FALSE
  /\ lookups = [i \in 1..MaxLookups |-> IdleLookup]
  /\ calls = 0
  /\ orchLoad = Null
  /\ orchLoads = 0
  /\ bg = {}
  /\ resolvedLast = 0
  /\ last = Other

\* ------------------------------------------------ the effect of line 1845
\* a condition that does not look at the tab
CompareGuardAnyTab(tab_, data_, orchData_, orchLoading_) ==
  /\ ~IsNull(data_)
  /\ IsNull(orchData_)
  /\ ~orchLoading_

\* the condition of line 1846, on the values of the render the effect follows
CompareGuard(tab_, data_, orchData_, orchLoading_) ==
  /\ tab_ = "compare"
  /\ ~IsNull(data_)
  /\ IsNull(orchData_)
  /\ ~orchLoading_

\* useEffect(..., [tab, data]) after the render of a batch that leaves
\* orchLoading at ol: it runs when tab or data changed, and then
\* loadOrchestrators (lines 1753-1760) sets orchLoading and dispatches the
\* transcoders and protocol queries.
CompareEffect(ol) ==
  IF (tab' # tab \/ data' # data) /\ CompareGuard(tab', data', orchData', ol)
  THEN /\ orchLoads < MaxOrchLoads
       /\ orchLoading' = TRUE
       /\ orchLoad' = [transcoders |-> Pending, protocol |-> Pending,
                       n |-> orchLoads + 1]
       /\ orchLoads' = orchLoads + 1
  ELSE /\ orchLoading' = ol
       /\ UNCHANGED <<orchLoad, orchLoads>>

\* ------------------------------------------------------------ loadDelegator
\* the three gqlFetch calls of lines 1667-1671
Dispatched == [x \in Queries |-> Pending]

\* a lookup that keeps the comparison data
OrchDataKept(prev) == prev

\* line 1656: setOrchData(null)
OrchDataOnStart(prev) == Null

\* lines 1650-1671, up to the first await, for the call number calls + 1
loadDelegator(address) ==
  /\ calls < MaxLookups
  /\ calls' = calls + 1
  /\ last' = [op |-> "loadDelegator", input |-> address]
  /\ LET i == calls + 1
         input == trim(address)
     IN IF input = <<>>
        THEN \* line 1652: return
             /\ lookups' = [lookups EXCEPT ![i] = Returned(IdleLookup, "ignored")]
             /\ UNCHANGED <<wallet, loading, error, data, tab, orchData,
                            orchLoading, ensNames, protocolData, simStake,
                            simCustom, url, orchLoad, orchLoads, bg,
                            resolvedLast>>
        ELSE /\ data' = Null
             /\ orchData' = OrchDataOnStart(orchData)
             /\ resolvedLast' = 0
             /\ IF endsWith(input, DotEth)
                THEN \* line 1660: await resolveENS(input)
                     /\ loading' = TRUE
                     /\ error' = MsgNone
                     /\ lookups' = [lookups EXCEPT ![i] =
                          [IdleLookup EXCEPT !.pc = "ens", !.input = input,
                                             !.ens = "pending"]]
                ELSE IF ~IsAddress(toLowerCase(input))
                THEN \* lines 1663-1665, then catch and finally
                     /\ loading' = FALSE
                     /\ error' = MsgInvalid
                     /\ lookups' = [lookups EXCEPT ![i] = Returned(IdleLookup, "failed")]
                ELSE /\ loading' = TRUE
                     /\ error' = MsgNone
                     /\ lookups' = [lookups EXCEPT ![i] =
                          [IdleLookup EXCEPT !.pc = "fetch",
                                             !.addr = toLowerCase(input),
                                             !.sent = TRUE, !.q = Dispatched]]
             /\ UNCHANGED <<wallet, tab, ensNames, protocolData, simStake,
                            simCustom, url, bg>>
             /\ CompareEffect(orchLoading)
  /\ UNCHANGED <<orchFilter, orchSort>>

\* a catch without the finally of line 1748
LookupFailsStillLoading(msg) ==
  /\ error' = msg
  /\ loading' = loading
  /\ UNCHANGED <<wallet, data, tab, orchData, ensNames, protocolData,
                 simStake, simCustom, url, bg, resolvedLast>>
  /\ CompareEffect(orchLoading)

\* catch and finally, lines 1745-1749
LookupFails(msg) ==
  /\ error' = msg
  /\ loading' = FALSE
  /\ UNCHANGED <<wallet, data, tab, orchData, ensNames, protocolData,
                 simStake, simCustom, url, bg, resolvedLast>>
  /\ CompareEffect(orchLoading)

\* what the name service gave: an address, no domain, or no answer at all
Answered(outcome, answer) ==
  IF outcome # "ok" THEN "error" ELSE IF answer = <<>> THEN "noaddress" ELSE "address"

\* the request of resolveENS settles for lookup i (line 1660)
resolveENSReturns(i, outcome, answer) ==
  /\ lookups[i].pc = "ens"
  /\ UNCHANGED calls
  /\ last' = Other
  /\ IF ~resolveENS(outcome, answer).throws
     THEN \* line 1660 resumes; lines 1667-1671 dispatch
          /\ lookups' = [lookups EXCEPT ![i] =
               [IdleLookup EXCEPT !.pc = "fetch",
                                  !.ens = Answered(outcome, answer),
                                  !.addr = resolveENS(outcome, answer).addr,
                                  !.sent = TRUE, !.q = Dispatched]]
          /\ UNCHANGED <<wallet, loading, error, data, tab, orchData,
                         orchLoading, ensNames, protocolData, simStake,
                         simCustom, url, orchLoad, orchLoads, bg,
                         resolvedLast>>
     ELSE \* line 1522, or the Error of gqlFetch
          /\ lookups' = [lookups EXCEPT ![i] =
               Returned([lookups[i] EXCEPT !.ens = Answered(outcome, answer)],
                        "failed")]
          /\ LookupFails(resolveENS(outcome, answer).message)
  /\ UNCHANGED <<orchFilter, orchSort>>

\* ------------------------------------------------- claims and the timeline
\* a mapper without the Math.max of line 1678
ClaimOfUnclamped(c) ==
  [r |-> <<c.startRound, c.endRound.id>>,
   lpt |-> Number(c.rewardTokens),
   eth |-> Number(c.fees),
   ts |-> c.timestamp,
   rounds |-> c.endRound.id - c.startRound + 1,
   delegate |-> c.delegate]

\* the mapper of lines 1676-1688
ClaimOf(c) ==
  LET startR == c.startRound
      endR == c.endRound.id
      rounds == IF endR - startR + 1 > 1 THEN endR - startR + 1 ELSE 1
  IN [r |-> <<startR, endR>>,
      lpt |-> Number(c.rewardTokens),
      eth |-> Number(c.fees),
      ts |-> c.timestamp,
      rounds |-> rounds,
      delegate |-> c.delegate]

\* a rule that looks at the amount only
BondEntryByAmount(e) ==
  [t |-> IF Number(e.additionalAmount) = Num(0) THEN "redelegate" ELSE "bond",
   ts |-> e.timestamp,
   round |-> e.round.id,
   amount |-> Number(e.additionalAmount)]

\* lines 1692-1704: a bond event, or a move to another delegate.  The texts
\* desc, val and to are left out; amount is the number they show.
BondEntry(e) ==
  LET isRebond == Number(e.additionalAmount) = Num(0) /\ ~IsNull(e.oldDelegate)
  IN [t |-> IF isRebond THEN "redelegate" ELSE "bond",
      ts |-> e.timestamp,
      round |-> e.round.id,
      amount |-> Number(e.additionalAmount)]

\* lines 1705-1716: the entries of the four other collections
AmountEntry(t, e) ==
  [t |-> t, ts |-> e.timestamp, round |-> e.round.id, amount |-> Number(e.amount)]

\* lines 1717-1719
ClaimEntry(c) == [t |-> "claim", ts |-> c.ts, round |-> 0, amount |-> c.lpt]

\* lines 1691-1719: events after the six forEach loops
Pushed(evtData, claims) ==
  [j \in 1..Len(evtData.bondEvents) |-> BondEntry(evtData.bondEvents[j])]
  \o [j \in 1..Len(evtData.unbondEvents) |->
        AmountEntry("unbond", evtData.unbondEvents[j])]
  \o [j \in 1..Len(evtData.rebondEvents) |->
        AmountEntry("rebond", evtData.rebondEvents[j])]
  \o [j \in 1..Len(evtData.withdrawStakeEvents) |->
        AmountEntry("withdraw", evtData.withdrawStakeEvents[j])]
  \o [j \in 1..Len(evtData.withdrawFeesEvents) |->
        AmountEntry("withdrawFees", evtData.withdrawFeesEvents[j])]
  \o [j \in 1..Len(claims) |-> ClaimEntry(claims[j])]

\* an insertion that puts e in front of the entries of its timestamp
RECURSIVE InsertBeforeEqual(_, _)
InsertBeforeEqual(s, e) ==
  IF s = <<>> THEN <<e>>
  ELSE IF s[Len(s)].ts < e.ts THEN Append(s, e)
  ELSE Append(InsertBeforeEqual(SubSeq(s, 1, Len(s) - 1), e), s[Len(s)])

\* e put behind the entries of s that are not later than it
RECURSIVE InsertByTs(_, _)
InsertByTs(s, e) ==
  IF s = <<>> THEN <<e>>
  ELSE IF s[Len(s)].ts <= e.ts THEN Append(s, e)
  ELSE Append(InsertByTs(SubSeq(s, 1, Len(s) - 1), e), s[Len(s)])

\* an events array that is left as the loops filled it
Unsorted(s) == s

\* line 1720: events.sort((a, b) => a.ts - b.ts), a stable sort
RECURSIVE SortByTs(_)
SortByTs(s) ==
  IF s = <<>> THEN <<>>
  ELSE InsertByTs(SortByTs(SubSeq(s, 1, Len(s) - 1)), s[Len(s)])

\* claims.reduce((s, c) => s + c.lpt, 0) and the like, lines 1731-1733
RECURSIVE SumLpt(_)
SumLpt(cs) ==
  IF cs = <<>> THEN Num(0)
  ELSE Plus(SumLpt(SubSeq(cs, 1, Len(cs) - 1)), cs[Len(cs)].lpt)

RECURSIVE SumEth(_)
SumEth(cs) ==
  IF cs = <<>> THEN Num(0)
  ELSE Plus(SumEth(SubSeq(cs, 1, Len(cs) - 1)), cs[Len(cs)].eth)

RECURSIVE SumRounds(_)
SumRounds(cs) ==
  IF cs = <<>> THEN 0
  ELSE SumRounds(SubSeq(cs, 1, Len(cs) - 1)) + cs[Len(cs)].rounds

\* lines 1675-1734: the object handed to setData
BuildData(addr, delData, earnData, evtData) ==
  LET del == delData.delegator
      claims == [j \in 1..Len(earnData.earningsClaimedEvents) |->
                   ClaimOf(earnData.earningsClaimedEvents[j])]
  IN [address |-> addr,
      delegator |-> del,
      claims |-> claims,
      events |-> SortByTs(Pushed(evtData, claims)),
      bondedAmount |-> Number(del.bondedAmount),
      earned |-> SumLpt(claims),
      totalETH |-> SumEth(claims),
      totalRounds |-> SumRounds(claims)]

\* a success path without the setWallet of line 1735
SetSubjectUrlOnly(addr) ==
  /\ wallet' = wallet
  /\ url' = [url EXCEPT !.address = addr]

\* lines 1735 and 1741-1743: the resolved address becomes the subject
SetSubject(addr) ==
  /\ wallet' = addr
  /\ url' = [url EXCEPT !.address = addr]

\* a success path that drops the result of a lookup that is not the latest
LookupSucceedsIfLatest(i, addr, delData, earnData, evtData) ==
  /\ resolvedLast' = i
  /\ UNCHANGED <<error, orchData, ensNames, protocolData, bg>>
  /\ IF i = calls
     THEN /\ data' = BuildData(addr, delData, earnData, evtData)
          /\ SetSubject(addr)
          /\ tab' = "dash"
          /\ simStake' = Number(delData.delegator.bondedAmount)
          /\ simCustom' = FALSE
          /\ loading' = FALSE
     ELSE UNCHANGED <<data, wallet, url, tab, simStake, simCustom, loading>>
  /\ CompareEffect(orchLoading)

\* lines 1722-1744 and finally, of lookup i
LookupSucceeds(i, addr, delData, earnData, evtData) ==
  /\ data' = BuildData(addr, delData, earnData, evtData)
  /\ SetSubject(addr)
  /\ tab' = "dash"
  /\ simStake' = Number(delData.delegator.bondedAmount)
  /\ simCustom' = FALSE
  /\ loading' = FALSE
  /\ resolvedLast' = i
  /\ UNCHANGED <<error, orchData, ensNames, protocolData, bg>>
  /\ CompareEffect(orchLoading)

\* Promise.all (line 1667) with the results q2: still waiting, or resolved
AllResolved(q2) == \A x \in Queries : q2[x].st = "ok"

\* the response completes Promise.all and line 1673 finds no delegator
NoDelegator(q, query, outcome, body) ==
  /\ ~gqlFetch(outcome, body).throws
  /\ LET q2 == [q EXCEPT ![query] = [st |-> "ok", body |-> body]]
     IN AllResolved(q2) /\ IsNull(q2["delegator"].body.delegator)

\* history: what the arrival of the response makes loadDelegator do, with
\* the three responses when it reaches setData
Settled(q, query, outcome, body) ==
  LET q2 == [q EXCEPT ![query] = [st |-> "ok", body |-> body]]
  IN IF gqlFetch(outcome, body).throws \/ ~AllResolved(q2) THEN Other
     ELSE IF NoDelegator(q, query, outcome, body) THEN [op |-> "noDelegator"]
     ELSE [op |-> "setData", delData |-> q2["delegator"].body,
           earnData |-> q2["earnings"].body, evtData |-> q2["events"].body]

\* one of the three gqlFetch calls of lookup i settles; Promise.all rejects
\* with the first rejection and resolves with the third result.  A request
\* of a lookup that has returned settles without any effect.
gqlFetchSettles(i, query, outcome, body) ==
  /\ lookups[i].pc = "fetch"
  /\ lookups[i].q[query].st = "pending"
  /\ UNCHANGED calls
  /\ last' = Settled(lookups[i].q, query, outcome, body)
  /\ IF gqlFetch(outcome, body).throws
     THEN /\ lookups' = [lookups EXCEPT ![i] = Returned(lookups[i], "failed")]
          /\ LookupFails(gqlFetch(outcome, body).message)
     ELSE LET q2 == [lookups[i].q EXCEPT ![query] = [st |-> "ok", body |-> body]]
          IN IF ~AllResolved(q2)
             THEN /\ lookups' = [lookups EXCEPT ![i].q = q2]
                  /\ UNCHANGED <<wallet, loading, error, data, tab, orchData,
                                 orchLoading, ensNames, protocolData, simStake,
                                 simCustom, url, orchLoad, orchLoads, bg,
                                 resolvedLast>>
             ELSE IF IsNull(q2["delegator"].body.delegator)
             THEN \* line 1673
                  /\ lookups' = [lookups EXCEPT ![i] = Returned(lookups[i], "failed")]
                  /\ LookupFails(MsgNotFound)
             ELSE /\ lookups' = [lookups EXCEPT ![i] = Returned(lookups[i], "ok")]
                  /\ LookupSucceeds(i, lookups[i].addr, q2["delegator"].body,
                                    q2["earnings"].body, q2["events"].body)
  /\ UNCHANGED <<orchFilter, orchSort>>

\* ------------------------------------------------------- the derived data
\* lines 1858-1862
claims == IF IsNull(data) THEN <<>> ELSE data.claims
earned == IF IsNull(data) THEN Num(0) ELSE OrZero(data.earned)
totalETH == IF IsNull(data) THEN Num(0) ELSE OrZero(data.totalETH)
totalRounds == IF IsNull(data) THEN 0 ELSE data.totalRounds
bondedAmount == IF IsNull(data) THEN Num(0) ELSE OrZero(data.bondedAmount)

\* line 1863
principal == Minus(bondedAmount, earned)

\* a ratio without Math.max
roiOfPrincipal ==
  IF Greater(bondedAmount, Num(0))
  THEN Times(Over(earned, principal), Num(100))
  ELSE Num(0)

\* line 1864
roi ==
  IF Greater(bondedAmount, Num(0))
  THEN Times(Over(earned, MathMax(principal, Num(1))), Num(100))
  ELSE Num(0)

\* an average without the test of totalRounds
avgPerRoundUnguarded ==
  [value |-> toFixed(Over(earned, Num(totalRounds)), 2)]

\* line 2020 (and 2167): the average per round, or the dash
avgPerRound ==
  IF totalRounds > 0
  THEN [value |-> toFixed(Over(earned, Num(totalRounds)), 2)]
  ELSE [noData |-> TRUE]

\* a series of the claims themselves, not of their running sums
cumDataPerClaim ==
  [j \in 1..Len(claims) |->
     [lpt |-> toFixed(claims[j].lpt, 2), eth |-> toFixed(claims[j].eth, 5),
      claimLPT |-> claims[j].lpt, claimETH |-> claims[j].eth]]

\* lines 1867-1875: the running sums, rounded; the date label is left out
cumData ==
  [j \in 1..Len(claims) |->
     [lpt |-> toFixed(SumLpt(SubSeq(claims, 1, j)), 2),
      eth |-> toFixed(SumEth(SubSeq(claims, 1, j)), 5),
      claimLPT |-> claims[j].lpt,
      claimETH |-> claims[j].eth]]

\* a click on a chip of the tab bar (line 1982), rendered when data && !loading
setTab(k) ==
  /\ ~IsNull(data)
  /\ ~loading
  /\ k # tab
  /\ tab' = k
  /\ last' = Other
  /\ UNCHANGED <<wallet, loading, error, data, orchData, ensNames,
                 protocolData, simStake, simCustom, url, lookups, calls,
                 bg, resolvedLast>>
  /\ CompareEffect(orchLoading)
  /\ UNCHANGED <<orchFilter, orchSort>>

\* -------------------------------------------------------- loadOrchestrators
\* a record of the transcoders response (lines 1492-1498)
Transcoder(id, stake, cut, share, vol, lastRound) ==
  [id |-> id, rewardCut |-> cut, feeShare |-> share, totalStake |-> stake,
   thirtyDayVolumeETH |-> vol, ninetyDayVolumeETH |-> vol,
   totalVolumeETH |-> vol, lastRewardRound |-> lastRound]

\* the transcoder lists the index can return (line 1493: active ones)
TranscoderLists ==
  { [transcoders |->
       << Transcoder("o1", Num(2), Num(500000), Num(250000), Num(3), [id |-> 7]),
          Transcoder("o2", Num(0), Num(0), Num(0), Num(0), Null) >>] }

\* the protocol response (lines 1499-1505)
Protocol(mintable, totalActive) ==
  [protocol |->
     [inflation |-> Num(1), totalActiveStake |-> totalActive,
      totalSupply |-> Num(8), participationRate |-> Ratio(1, 2),
      currentRound |-> [id |-> 7, mintableTokens |-> mintable],
      lptPriceEth |-> Ratio(1, 1000)]]

ProtocolBodies == { Protocol(Num(10), Num(4)) }

OrchBodies(query) ==
  IF query = "transcoders" THEN TranscoderLists ELSE ProtocolBodies

\* lines 1766-1773: the object handed to setProtocolData
ProtocolDataOf(protocol) ==
  [inflation |-> Number(protocol.inflation),
   totalActiveStake |-> Number(protocol.totalActiveStake),
   totalSupply |-> Number(protocol.totalSupply),
   participationRate |-> Number(protocol.participationRate),
   currentRound |-> protocol.currentRound.id,
   lptPriceEth |-> Number(protocol.lptPriceEth)]

\* a test that asks for a last reward round only, whichever it is
CallingRewardAnyRound(t, currentRoundId) == ~IsNull(t.lastRewardRound)

\* line 1804: t.lastRewardRound?.id === currentRoundId
CallingReward(t, currentRoundId) ==
  /\ ~IsNull(t.lastRewardRound)
  /\ t.lastRewardRound.id = currentRoundId

\* the record of an orchestrator, from the values lines 1776-1789 compute
OrchRecord(t, protocol, rewardAPY, ethYieldPerLPT) ==
  [id |-> t.id,
   rewardCut |-> Number(t.rewardCut),
   feeShare |-> Number(t.feeShare),
   stake |-> Number(t.totalStake),
   eth30d |-> Number(t.thirtyDayVolumeETH),
   eth90d |-> Number(t.ninetyDayVolumeETH),
   totalETH |-> Number(t.totalVolumeETH),
   rewardAPY |-> rewardAPY,
   ethYieldPerLPT |-> ethYieldPerLPT,
   delegatorFees30d |-> Times(Number(t.thirtyDayVolumeETH),
                              Over(Number(t.feeShare), Num(1000000))),
   isWorking |-> Greater(Number(t.thirtyDayVolumeETH), Num(0)),
   lastRewardRound |-> IF IsNull(t.lastRewardRound) THEN Null
                       ELSE [id |-> t.lastRewardRound.id],
   callingReward |-> CallingReward(t, protocol.currentRound.id),
   sparkline |-> Null]

\* a mapper that divides without looking at the divisors
OrchOfUnguarded(t, protocol) ==
  LET mintable == Number(protocol.currentRound.mintableTokens)
      totalActive == Number(protocol.totalActiveStake)
      delegatorYield ==
        Times(Over(mintable, totalActive),
              Minus(Num(1), Over(Number(t.rewardCut), Num(1000000))))
      delegatorFees30d ==
        Times(Number(t.thirtyDayVolumeETH),
              Over(Number(t.feeShare), Num(1000000)))
  IN OrchRecord(t, protocol, Times(Times(delegatorYield, Num(365)), Num(100)),
                Times(Over(delegatorFees30d, Number(t.totalStake)), Num(12)))

\* the mapper of lines 1775-1807
OrchOf(t, protocol) ==
  LET mintable == Number(protocol.currentRound.mintableTokens)
      totalActive == Number(protocol.totalActiveStake)
      stake == Number(t.totalStake)
      baseYield == IF Greater(totalActive, Num(0))
                   THEN Over(mintable, totalActive) ELSE Num(0)
      delegatorYield ==
        Times(baseYield, Minus(Num(1), Over(Number(t.rewardCut), Num(1000000))))
      rewardAPY == Times(Times(delegatorYield, Num(365)), Num(100))
      delegatorFees30d ==
        Times(Number(t.thirtyDayVolumeETH),
              Over(Number(t.feeShare), Num(1000000)))
      ethYieldPerLPT == IF Greater(stake, Num(0))
                        THEN Times(Over(delegatorFees30d, stake), Num(12))
                        ELSE Num(0)
  IN OrchRecord(t, protocol, rewardAPY, ethYieldPerLPT)

\* line 1815: the ids of the working orchestrators
WorkingIds(orchs) == {orchs[j].id : j \in {k \in 1..Len(orchs) : orchs[k].isWorking}}

\* line 1811
AllIds(orchs) == {orchs[j].id : j \in 1..Len(orchs)}

\* lines 1810-1837: the fetches started after setOrchData, by load n
BackgroundFetches(orchs, n) ==
  {[kind |-> "ens", n |-> n, ids |-> AllIds(orchs)]}
  \cup (IF WorkingIds(orchs) # {}
        THEN {[kind |-> "spark", n |-> n, ids |-> WorkingIds(orchs)]}
        ELSE {})

\* history: the two responses, when the arrival of one of them makes
\* loadOrchestrators reach setOrchData
OrchSettled(l, query, outcome, body) ==
  LET l2 == [l EXCEPT ![query] = [st |-> "ok", body |-> body]]
  IN IF gqlFetch(outcome, body).throws
        \/ l2.transcoders.st # "ok" \/ l2.protocol.st # "ok"
     THEN Other
     ELSE [op |-> "setOrchData", tData |-> l2.transcoders.body,
           pData |-> l2.protocol.body]

\* one of the two gqlFetch calls of line 1757 settles
loadOrchestratorsSettles(query, outcome, body) ==
  /\ ~IsNull(orchLoad)
  /\ orchLoad[query].st = "pending"
  /\ last' = OrchSettled(orchLoad, query, outcome, body)
  /\ IF gqlFetch(outcome, body).throws
     THEN \* catch (line 1838) and finally (line 1841)
          /\ orchLoading' = FALSE
          /\ orchLoad' = Null
          /\ UNCHANGED <<orchData, protocolData, bg>>
     ELSE LET l2 == [orchLoad EXCEPT ![query] = [st |-> "ok", body |-> body]]
          IN IF l2.transcoders.st # "ok" \/ l2.protocol.st # "ok"
             THEN /\ orchLoad' = l2
                  /\ UNCHANGED <<orchData, orchLoading, protocolData, bg>>
             ELSE LET tData == l2.transcoders.body
                      protocol == l2.protocol.body.protocol
                  IN \E orchs \in {[j \in 1..Len(tData.transcoders) |->
                                      OrchOf(tData.transcoders[j], protocol)]} :
                       /\ protocolData' = ProtocolDataOf(protocol)
                       /\ orchData' = [orchs |-> orchs]
                       /\ bg' = bg \cup BackgroundFetches(orchs, orchLoad.n)
                       /\ orchLoading' = FALSE
                       /\ orchLoad' = Null
  /\ UNCHANGED <<wallet, loading, error, data, tab, ensNames, simStake,
                 simCustom, url, lookups, calls, orchLoads, resolvedLast>>
  /\ UNCHANGED <<orchFilter, orchSort>>

\* a domain of the name service whose address record is id
Domain(name, id) == [name |-> name, resolvedAddress |-> [id |-> id]]

\* the ids of the orchestrators of the model, in a fixed order
OrchIds == <<"o1", "o2", "o3">>

\* the domains the name service can return for the addresses asked: here
\* every one of them has the name n.eth
DomainLists(ids) ==
  LET asked == SelectSeq(OrchIds, LAMBDA id : id \in ids)
  IN { [j \in 1..Len(asked) |-> Domain(InName, asked[j])] }

\* batchResolveENS returns and line 1812 stores the names
batchResolveENSReturns(task, outcome, domains) ==
  /\ task \in bg
  /\ task.kind = "ens"
  /\ bg' = bg \ {task}
  /\ last' = [op |-> "batchResolveENS", ok |-> outcome = "ok"]
  /\ ensNames' = batchResolveENS(outcome, domains)
  /\ UNCHANGED <<wallet, loading, error, data, tab, orchData, orchLoading,
                 protocolData, simStake, simCustom, url, lookups, calls,
                 orchLoad, orchLoads, resolvedLast>>
  /\ UNCHANGED <<orchFilter, orchSort>>

\* an updater without the test of prev: a list in the place of null
WithSparklinesOverNull(prev, byOrch, n) ==
  IF IsNull(prev) THEN [orchs |-> <<>>]
  ELSE [orchs |-> [j \in 1..Len(prev.orchs) |->
          [prev.orchs[j] EXCEPT !.sparkline =
             IF prev.orchs[j].id \in byOrch THEN [days |-> n] ELSE Null]]]

\* the updater of lines 1832-1835
WithSparklines(prev, byOrch, n) ==
  IF IsNull(prev) THEN prev
  ELSE [orchs |-> [j \in 1..Len(prev.orchs) |->
          [prev.orchs[j] EXCEPT !.sparkline =
             IF prev.orchs[j].id \in byOrch THEN [days |-> n] ELSE Null]]]

\* a catch that reports the failure
SparklineCatchReports ==
  /\ error' = MsgFetch
  /\ UNCHANGED orchData

\* line 1836: .catch(() => {})
SparklineCatch == UNCHANGED <<orchData, error>>

\* the transcoderDays fetch of line 1819 settles (then: 1825, catch: 1836)
sparklineSettles(task, outcome, byOrch) ==
  /\ task \in bg
  /\ task.kind = "spark"
  /\ bg' = bg \ {task}
  /\ last' = [op |-> "sparkline", ok |-> outcome = "ok"]
  /\ IF gqlFetch(outcome, byOrch).throws
     THEN SparklineCatch
     ELSE /\ orchData' = WithSparklines(orchData, byOrch, task.n)
          /\ UNCHANGED error
  /\ UNCHANGED <<wallet, loading, data, tab, orchLoading, ensNames,
                 protocolData, simStake, simCustom, url, lookups, calls,
                 orchLoad, orchLoads, resolvedLast>>
  /\ UNCHANGED <<orchFilter, orchSort>>

\* ------------------------------------------------------- the compare tab
\* line 1879
effectiveStake == IF simCustom THEN simStake ELSE bondedAmount

\* the comparator of lines 1882-1885: negative, zero or positive
CompareOrchs(a, b, sort) ==
  LET diff == Minus(a[sort.col], b[sort.col])
  IN IF sort.dir = "desc" THEN -diff.n ELSE diff.n

\* an insertion that puts x before the entries it compares equal to
InsertOrchBeforeEqual(sorted, x, sort) ==
  LET before == {j \in 1..Len(sorted) : CompareOrchs(sorted[j], x, sort) < 0}
      k == IF before = {} THEN 0
           ELSE CHOOSE j \in before : \A m \in before : m <= j
  IN SubSeq(sorted, 1, k) \o <<x>> \o SubSeq(sorted, k + 1, Len(sorted))

\* x goes behind every entry that does not compare greater than x
InsertOrch(sorted, x, sort) ==
  LET before == {j \in 1..Len(sorted) : CompareOrchs(sorted[j], x, sort) <= 0}
      k == IF before = {} THEN 0
           ELSE CHOOSE j \in before : \A m \in before : m <= j
  IN SubSeq(sorted, 1, k) \o <<x>> \o SubSeq(sorted, k + 1, Len(sorted))

\* Array.prototype.sort with the comparator of line 1882; the sort is stable
RECURSIVE SortOrchs(_, _)
SortOrchs(orchs, sort) ==
  IF orchs = <<>> THEN <<>>
  ELSE InsertOrch(SortOrchs(SubSeq(orchs, 1, Len(orchs) - 1), sort),
                  orchs[Len(orchs)], sort)

\* lines 1880-1885
filteredOrchs ==
  SortOrchs(SelectSeq(IF IsNull(orchData) THEN <<>> ELSE orchData.orchs,
                      LAMBDA o : orchFilter = "all" \/ o.isWorking),
            orchSort)

\* lines 1977, 2203 and 2212: the controls of the compare tab are rendered
CompareShown ==
  /\ ~IsNull(data)
  /\ ~loading
  /\ tab = "compare"
  /\ ~IsNull(orchData)

\* what a handler of the compare tab leaves alone
CompareFrame ==
  UNCHANGED <<wallet, loading, error, data, tab, orchData, orchLoading,
              ensNames, protocolData, url, mounted, lookups, calls, orchLoad,
              orchLoads, bg, resolvedLast>>

\* the chips of lines 2272-2273
setOrchFilter(f) ==
  /\ CompareShown
  /\ orchFilter' = f
  /\ last' = Other
  /\ UNCHANGED <<orchSort, simStake, simCustom>>
  /\ CompareFrame

\* the columns of the leaderboard, lines 2396-2409
Columns ==
  <<"rank", "id", "rewardAPY", "eth30d", "ethYieldPerLPT", "rewardCut",
    "feeShare", "stake", "sparkline">>
  \o (IF Greater(effectiveStake, Num(0)) THEN <<"estLPT", "estETH">> ELSE <<>>)

\* line 2411
Sortable(col) == col \notin {"rank", "id", "estLPT", "estETH", "sparkline"}

\* an updater that selects the column descending, whatever was selected
SelectDescending(s, col) == [col |-> col, dir |-> "desc"]

\* the updater of line 2415
ToggleSort(s, col) ==
  [col |-> col,
   dir |-> IF s.col = col /\ s.dir = "desc" THEN "asc" ELSE "desc"]

\* a click on the header of a column (line 2415)
headerClick(col) ==
  /\ CompareShown
  /\ \E j \in 1..Len(Columns) : Columns[j] = col
  /\ orchSort' = IF Sortable(col) THEN ToggleSort(orchSort, col) ELSE orchSort
  /\ last' = [op |-> "headerClick", col |-> col]
  /\ UNCHANGED <<orchFilter, simStake, simCustom>>
  /\ CompareFrame

\* the simulator input: onChange (line 2281) with the number typed
simulatorChange(v) ==
  /\ CompareShown
  /\ simStake' = OrZero(v)
  /\ simCustom' = TRUE
  /\ last' = Other
  /\ UNCHANGED <<orchFilter, orchSort>>
  /\ CompareFrame

\* the simulator input: onFocus (line 2282)
simulatorFocus ==
  /\ CompareShown
  /\ IF ~simCustom
     THEN simStake' = bondedAmount /\ simCustom' = TRUE
     ELSE UNCHANGED <<simStake, simCustom>>
  /\ last' = Other
  /\ UNCHANGED <<orchFilter, orchSort>>
  /\ CompareFrame

\* the Reset button (line 2292), rendered when simCustom
simulatorReset ==
  /\ CompareShown
  /\ simCustom
  /\ simCustom' = FALSE
  /\ simStake' = bondedAmount
  /\ last' = Other
  /\ UNCHANGED <<orchFilter, orchSort>>
  /\ CompareFrame

\* ---------------------------------------------------------------- exportCSV
\* Texts are sequences of characters; an orchestrator id is one symbol of a
\* text (an address: 0x and 40 hexadecimal digits).
DigitChar(d) == <<"0", "1", "2", "3", "4", "5", "6", "7", "8", "9">>[d + 1]

\* the decimal digits of a natural number
RECURSIVE Digits(_)
Digits(n) ==
  IF n < 10 THEN <<DigitChar(n)>>
  ELSE Digits(n \div 10) \o <<DigitChar(n % 10)>>

\* the last k decimal digits of n, with leading zeros
RECURSIVE PadDigits(_, _)
PadDigits(n, k) ==
  IF k = 0 THEN <<>> ELSE PadDigits(n \div 10, k - 1) \o <<DigitChar(n % 10)>>

\* x.toFixed(k), the text: sign, integer part, and k decimals behind a point
toFixedText(x, k) ==
  IF ~IsFinite(x) THEN <<"N", "a", "N">>
  ELSE LET scaled == (2 * Abs(x.n) * Pow10(k) + x.d) \div (2 * x.d)
       IN (IF x.n < 0 THEN <<"-">> ELSE <<>>)
          \o Digits(scaled \div Pow10(k))
          \o (IF k = 0 THEN <<>>
              ELSE <<".">> \o PadDigits(scaled % Pow10(k), k))

\* texts.join(sep)
RECURSIVE Join(_, _)
Join(texts, sep) ==
  IF texts = <<>> THEN <<>>
  ELSE IF Len(texts) = 1 THEN texts[1]
  ELSE Join(SubSeq(texts, 1, Len(texts) - 1), sep) \o <<sep>> \o texts[Len(texts)]

\* a header row with a column for the rank
headersWithRank ==
  <<<<"#">>,
    <<"O", "r", "c", "h", "e", "s", "t", "r", "a", "t", "o", "r">>,
    <<"E", "N", "S", " ", "N", "a", "m", "e">>,
    <<"R", "e", "w", "a", "r", "d", " ", "A", "P", "Y", " ", "%">>,
    <<"3", "0", "d", " ", "E", "T", "H", " ", "F", "e", "e", "s">>,
    <<"E", "T", "H", "/", "L", "P", "T", "/", "y", "r">>,
    <<"R", "e", "w", "a", "r", "d", " ", "C", "u", "t", " ", "%">>,
    <<"F", "e", "e", " ", "S", "h", "a", "r", "e", " ", "%">>,
    <<"T", "o", "t", "a", "l", " ", "S", "t", "a", "k", "e">>,
    <<"R", "e", "w", "a", "r", "d", " ", "C", "a", "l", "l", "i", "n",
       "g">>,
    <<"E", "s", "t", " ", "L", "P", "T", "/", "y", "r">>,
    <<"E", "s", "t", " ", "E", "T", "H", "/", "y", "r">>>>

\* line 1542
headers ==
  <<<<"O", "r", "c", "h", "e", "s", "t", "r", "a", "t", "o", "r">>,
    <<"E", "N", "S", " ", "N", "a", "m", "e">>,
    <<"R", "e", "w", "a", "r", "d", " ", "A", "P", "Y", " ", "%">>,
    <<"3", "0", "d", " ", "E", "T", "H", " ", "F", "e", "e", "s">>,
    <<"E", "T", "H", "/", "L", "P", "T", "/", "y", "r">>,
    <<"R", "e", "w", "a", "r", "d", " ", "C", "u", "t", " ", "%">>,
    <<"F", "e", "e", " ", "S", "h", "a", "r", "e", " ", "%">>,
    <<"T", "o", "t", "a", "l", " ", "S", "t", "a", "k", "e">>,
    <<"R", "e", "w", "a", "r", "d", " ", "C", "a", "l", "l", "i", "n",
       "g">>,
    <<"E", "s", "t", " ", "L", "P", "T", "/", "y", "r">>,
    <<"E", "s", "t", " ", "E", "T", "H", "/", "y", "r">>>>

\* ensNames[o.id] || ""
NameOf(names, id) == IF id \in DOMAIN names THEN names[id] ELSE <<>>

\* lines 1543-1548: the fields of the row of orchestrator o
Row(o, names, stake) ==
  << <<o.id>>,
     NameOf(names, o.id),
     toFixedText(o.rewardAPY, 2),
     toFixedText(o.eth30d, 4),
     toFixedText(o.ethYieldPerLPT, 6),
     toFixedText(Over(o.rewardCut, Num(10000)), 2),
     toFixedText(Over(o.feeShare, Num(10000)), 2),
     toFixedText(o.stake, 0),
     IF o.callingReward THEN <<"Y", "e", "s">> ELSE <<"N", "o">>,
     toFixedText(Over(Times(stake, o.rewardAPY), Num(100)), 2),
     toFixedText(Times(stake, o.ethYieldPerLPT), 6) >>

\* lines 1541-1549: the text of the file handed to the download
exportCSV(orchs, names, stake) ==
  Join([j \in 1..Len(orchs) + 1 |->
          Join(IF j = 1 THEN headers ELSE Row(orchs[j - 1], names, stake), ",")],
       "\n")

\* the Export CSV button (line 2299): the download of lines 1550-1554
exportClick ==
  /\ CompareShown
  /\ last' = [op |-> "exportCSV",
              csv |-> exportCSV(filteredOrchs, ensNames, effectiveStake),
              shown |-> filteredOrchs, stake |-> effectiveStake]
  /\ UNCHANGED <<orchFilter, orchSort, simStake, simCustom>>
  /\ CompareFrame

\* ------------------------------------------------------- the mount effect
\* a reading of the query string that looks at "wallet" only
URLParamWalletOnly(u) == u.wallet

\* line 1645: params.get("address") || params.get("wallet")
URLParam(u) == IF u.address # <<>> THEN u.address ELSE u.wallet

\* the effect of lines 1643-1647, which runs once, after the first render
Mount ==
  /\ ~mounted
  /\ mounted' = TRUE
  /\ IF URLParam(url) # <<>>
     THEN loadDelegator(URLParam(url))
     ELSE /\ last' = Other
          /\ UNCHANGED <<wallet, loading, error, data, tab, orchData,
                         orchLoading, ensNames, protocolData, simStake,
                         simCustom, url, lookups, calls, orchLoad, orchLoads,
                         bg, resolvedLast, orchFilter, orchSort>>

\* every other step runs on the mounted component
Mounted == mounted /\ UNCHANGED mounted

\* --------------------------------------------------------- the transitions
Next ==
  \/ Mount
  \/ \E s \in Inputs : Mounted /\ loadDelegator(s)
  \/ \E i \in 1..MaxLookups, o \in Outcomes, a \in ENSAnswers :
       Mounted /\ resolveENSReturns(i, o, a)
  \/ \E i \in 1..MaxLookups, x \in Queries, o \in Outcomes :
       \E b \in Bodies(i, lookups[i].addr, x) :
         Mounted /\ gqlFetchSettles(i, x, o, b)
  \/ \E k \in Tabs : Mounted /\ setTab(k)
  \/ \E x \in {"transcoders", "protocol"}, o \in Outcomes :
       \E b \in OrchBodies(x) : Mounted /\ loadOrchestratorsSettles(x, o, b)
  \/ \E t \in bg, o \in Outcomes :
       \E ds \in DomainLists(t.ids) : Mounted /\ batchResolveENSReturns(t, o, ds)
  \/ \E t \in bg, o \in Outcomes :
       \E byOrch \in (SUBSET t.ids) \ {{}} :
         Mounted /\ sparklineSettles(t, o, byOrch)

Spec == Init /\ [][Next]_vars

\* ------------------------------------------------ every request settles
\* Each request that was dispatched is answered or rejected in the end, and
\* the continuation that awaits it then runs.  A call that waits (for the
\* name lookup of line 1660, for the three queries of line 1667, for the
\* two of line 1757) therefore sees one of its requests settle, as long as
\* it waits.
LookupProceeds(i) ==
  \/ \E o \in Outcomes, a \in ENSAnswers : Mounted /\ resolveENSReturns(i, o, a)
  \/ \E x \in Queries, o \in Outcomes : \E b \in Bodies(i, lookups[i].addr, x) :
       Mounted /\ gqlFetchSettles(i, x, o, b)

OrchLoadProceeds ==
  \E x \in {"transcoders", "protocol"}, o \in Outcomes : \E b \in OrchBodies(x) :
    Mounted /\ loadOrchestratorsSettles(x, o, b)

EveryRequestSettles ==
  /\ \A i \in 1..MaxLookups : WF_vars(LookupProceeds(i))
  /\ WF_vars(OrchLoadProceeds)

\* what the user submits: an address, a name, a malformed input
LiveInputs == {InAddrB, InName, InShort}

\* lookups and comparison loads, without the background fetches
NextLive ==
  \/ Mount
  \/ \E s \in LiveInputs : Mounted /\ loadDelegator(s)
  \/ \E i \in 1..MaxLookups, o \in Outcomes, a \in ENSAnswers :
       Mounted /\ resolveENSReturns(i, o, a)
  \/ \E i \in 1..MaxLookups, x \in Queries, o \in Outcomes :
       \E b \in Bodies(i, lookups[i].addr, x) :
         Mounted /\ gqlFetchSettles(i, x, o, b)
  \/ \E k \in {"dash", "compare"} : Mounted /\ setTab(k)
  \/ \E x \in {"transcoders", "protocol"}, o \in Outcomes :
       \E b \in OrchBodies(x) : Mounted /\ loadOrchestratorsSettles(x, o, b)

SpecLive == Init /\ [][NextLive]_vars /\ EveryRequestSettles

\* ------------------------------------------- one lookup, its events varied
SeqsUpTo(S, k) == UNION {[1..m -> S] : m \in 0..k}

\* the index lists every collection by timestamp, ascending
Ascending(s) == \A j \in 1..Len(s) - 1 : s[j].timestamp <= s[j + 1].timestamp

Stamps == {1, 2}

BondRecords ==
  { [timestamp |-> ts, round |-> [id |-> 1], additionalAmount |-> a,
     oldDelegate |-> o] :
    ts \in Stamps, a \in {Num(0), Num(5)}, o \in {Null, [id |-> "o2"]} }

AmountRecord(ts) == [timestamp |-> ts, round |-> [id |-> 1], amount |-> Num(1)]

ClaimRecord(ts, sr, er, lpt, eth) ==
  [timestamp |-> ts, startRound |-> sr, endRound |-> [id |-> er],
   rewardTokens |-> lpt, fees |-> eth, delegate |-> [id |-> 1]]

\* the four other collections: empty, one record each at one timestamp, or
\* two of them at different timestamps
OtherEvents ==
  { [unbondEvents |-> <<>>, rebondEvents |-> <<>>,
     withdrawStakeEvents |-> <<>>, withdrawFeesEvents |-> <<>>],
    [unbondEvents |-> <<AmountRecord(1)>>, rebondEvents |-> <<AmountRecord(1)>>,
     withdrawStakeEvents |-> <<AmountRecord(1)>>,
     withdrawFeesEvents |-> <<AmountRecord(1)>>],
    [unbondEvents |-> <<AmountRecord(2)>>, rebondEvents |-> <<>>,
     withdrawStakeEvents |-> <<>>, withdrawFeesEvents |-> <<AmountRecord(1)>>] }

TimelineEvents ==
  { [bondEvents |-> b, unbondEvents |-> o.unbondEvents,
     rebondEvents |-> o.rebondEvents,
     withdrawStakeEvents |-> o.withdrawStakeEvents,
     withdrawFeesEvents |-> o.withdrawFeesEvents] :
    b \in {x \in SeqsUpTo(BondRecords, MaxBondEvents) : Ascending(x)},
    o \in OtherEvents }

TimelineClaims ==
  { [earningsClaimedEvents |-> c] :
    c \in {x \in SeqsUpTo({ClaimRecord(ts, 1, 1, Num(1), Num(0)) : ts \in Stamps},
                           MaxClaims) : Ascending(x)} }

TimelineBodies(addr, query) ==
  CASE query = "delegator" ->
         {[delegator |-> [id |-> addr, bondedAmount |-> Num(5), of |-> 1]]}
    [] query = "earnings" -> TimelineClaims
    [] query = "events" -> TimelineEvents

NextTimeline ==
  \/ Mount
  \/ Mounted /\ loadDelegator(InAddrB)
  \/ \E x \in Queries : \E b \in TimelineBodies(lookups[1].addr, x) :
       Mounted /\ gqlFetchSettles(1, x, "ok", b)

SpecTimeline == Init /\ [][NextTimeline]_vars

\* ------------------------------------------- one lookup, its claims varied
\* start and end rounds of a claim: one round, a range, and a range whose
\* end lies before its start
EarningsRounds == {<<100, 100>>, <<11, 15>>, <<15, 11>>}

\* rewardTokens and fees of a claim; the index returns decimals of up to 18
\* places, so amounts below the places the charts keep occur
EarningsAmounts ==
  {<<Num(0), Num(0)>>, <<Ratio(1, 250), Ratio(1, 64)>>,
   <<Num(80), Ratio(1, 1000)>>}

\* the earnings responses: up to MaxClaims claims, by timestamp
EarningsClaims ==
  { [earningsClaimedEvents |->
       [j \in 1..Len(x) |->
          ClaimRecord(j, x[j][1][1], x[j][1][2], x[j][2][1], x[j][2][2])]] :
    x \in SeqsUpTo(EarningsRounds \X EarningsAmounts, MaxClaims) }

\* the delegator responses: nothing bonded, less bonded than earned, more
EarningsDelegators(addr) ==
  { [delegator |-> [id |-> addr, bondedAmount |-> b, of |-> 1]] :
    b \in {Num(0), Num(50), Num(1000)} }

EarningsLookupBodies(addr, query) ==
  CASE query = "delegator" -> EarningsDelegators(addr)
    [] query = "earnings" -> EarningsClaims
    [] query = "events" -> EventsBodies(1)

NextEarnings ==
  \/ Mount
  \/ Mounted /\ loadDelegator(InAddrB)
  \/ \E x \in Queries : \E b \in EarningsLookupBodies(lookups[1].addr, x) :
       Mounted /\ gqlFetchSettles(1, x, "ok", b)

SpecEarnings == Init /\ [][NextEarnings]_vars

\* ------------------------------- one comparison load, its responses varied
\* one orchestrator whose last reward round, stake, reward cut, fee share
\* and 30-day volume vary (cut and share in millionths), next to a fixed one
\* that never called reward
YieldTranscoders ==
  { [transcoders |->
       << Transcoder("o1", stake, cut, share, vol, [id |-> round]),
          Transcoder("o2", Num(3), Num(100000), Num(1000000), Num(3), Null) >>] :
    round \in {6, 7},
    stake \in {Num(0), Num(2)},
    cut \in {Num(0), Num(500000), Num(1000000)},
    share \in {Num(0), Num(250000)},
    vol \in {Num(0), Num(3)} }

YieldProtocols ==
  { Protocol(mintable, totalActive) :
    mintable \in {Num(0), Num(10)}, totalActive \in {Num(0), Num(4)} }

YieldBodies(query) ==
  IF query = "transcoders" THEN YieldTranscoders ELSE YieldProtocols

NextYield ==
  \/ Mount
  \/ Mounted /\ loadDelegator(InAddrB)
  \/ \E x \in Queries : \E b \in Bodies(1, lookups[1].addr, x) :
       Mounted /\ gqlFetchSettles(1, x, "ok", b)
  \/ \E k \in Tabs : Mounted /\ setTab(k)
  \/ \E x \in {"transcoders", "protocol"} : \E b \in YieldBodies(x) :
       Mounted /\ loadOrchestratorsSettles(x, "ok", b)

SpecYield == Init /\ [][NextYield]_vars

\* --------------------------------- the compare tab, its controls exercised
\* three orchestrators, in two orders: o1 and o2 have the same reward cut,
\* fee share and stake, o1 and o3 the same 30-day volume and fee share, and
\* o2 has no volume
RankTranscoders ==
  LET o1 == Transcoder("o1", Num(2), Num(500000), Num(250000), Num(3), [id |-> 7])
      o2 == Transcoder("o2", Num(2), Num(500000), Num(250000), Num(0), Null)
      o3 == Transcoder("o3", Num(4), Num(0), Num(250000), Num(3), [id |-> 6])
  IN { [transcoders |-> <<o1, o2, o3>>], [transcoders |-> <<o3, o2, o1>>] }

RankBodies(query) ==
  IF query = "transcoders" THEN RankTranscoders ELSE ProtocolBodies

\* a name that its owner registered with a comma in it
InCommaName == <<"a", ",", "b", ".", "e", "t", "h">>

\* the domains the name service can return: none, two names for o1 and one
\* for o3, or a name with a comma for o3
RankDomainLists ==
  { <<>>,
    <<Domain(<<"n", "n">> \o InName, "o1"), Domain(InName, "o1"),
      Domain(InUpperEth, "o3")>>,
    <<Domain(InCommaName, "o3")>> }

\* the numbers typed into the simulator
SimulatorInputs == {Num(0), Num(7)}

\* the column ids of line 2396-2409
AllColumns ==
  {"rank", "id", "rewardAPY", "eth30d", "ethYieldPerLPT", "rewardCut",
   "feeShare", "stake", "sparkline", "estLPT", "estETH"}

NextCompare ==
  \/ Mount
  \/ Mounted /\ loadDelegator(InAddrB)
  \/ \E x \in Queries : \E b \in Bodies(1, lookups[1].addr, x) :
       Mounted /\ gqlFetchSettles(1, x, "ok", b)
  \/ Mounted /\ setTab("compare")
  \/ \E x \in {"transcoders", "protocol"} : \E b \in RankBodies(x) :
       Mounted /\ loadOrchestratorsSettles(x, "ok", b)
  \/ \E t \in bg, ds \in RankDomainLists :
       Mounted /\ batchResolveENSReturns(t, "ok", ds)
  \/ \E f \in {"working", "all"} : Mounted /\ setOrchFilter(f)
  \/ \E col \in AllColumns : Mounted /\ headerClick(col)
  \/ \E v \in SimulatorInputs : Mounted /\ simulatorChange(v)
  \/ Mounted /\ simulatorFocus
  \/ Mounted /\ simulatorReset
  \/ Mounted /\ exportClick

SpecCompare == Init /\ [][NextCompare]_vars

\* ============================================================ the claims
\* the lookups that got past line 1652
Started(i) == lookups[i].pc \notin {"idle", "ignored"}

\* the lookup submitted last, 0 before the first one
LatestStarted ==
  IF \E i \in 1..calls : Started(i)
  THEN CHOOSE i \in 1..calls : Started(i) /\ \A j \in 1..calls : Started(j) => j <= i
  ELSE 0

\* lookup i ends in the catch of line 1745 in this step
Fails(i) == lookups[i].pc # "failed" /\ lookups'[i].pc = "failed"

\* this step is a call of loadDelegator that gets past line 1652
StartsLookup == calls' = calls + 1 /\ trim(last'.input) # <<>>

\* every part of d comes from the responses to lookup i: the profile, the
\* claims (by their delegate) and the stake events (by their round)
OfLookup(d, i) ==
  /\ d.delegator.of = i
  /\ d.claims # <<>>
  /\ \A k \in 1..Len(d.claims) : d.claims[k].delegate.id = i
  /\ \E k \in 1..Len(d.events) : d.events[k].t # "claim"
  /\ \A k \in 1..Len(d.events) :
       IF d.events[k].t = "claim" THEN d.events[k].ts = d.claims[1].ts
       ELSE d.events[k].round = i

\* C1: a lookup stores data only in the step in which the third of its three
\* responses arrives, the other two having arrived before; and when one of
\* them fails, the error is set and data is left null.
C1_AllOrNothing ==
  [][/\ (data' # data /\ ~IsNull(data')) =>
          \E i \in 1..MaxLookups :
            /\ lookups[i].pc = "fetch" /\ lookups'[i].pc = "ok"
            /\ Cardinality({x \in Queries : lookups[i].q[x].st = "ok"}) = 2
            /\ OfLookup(data', i)
     /\ \A i \in 1..MaxLookups :
          (lookups[i].pc = "fetch" /\ Fails(i)) =>
             (error' # MsgNone /\ IsNull(data'))]_vars

\* C2 as stated: once orchData is populated it stays populated, and the
\* transcoders and protocol queries are not dispatched again.
C2_OncePerSession ==
  [][~IsNull(orchData) => (~IsNull(orchData') /\ orchLoads' = orchLoads)]_vars

\* C2 amended: orchData is kept until the next lookup starts. Every call of
\* loadDelegator with a non-blank input resets it to null, nothing else does,
\* and the transcoders and protocol queries are dispatched only while it is
\* null.
C2_KeptUntilNextLookup ==
  [][/\ StartsLookup => IsNull(orchData')
     /\ (~IsNull(orchData) /\ IsNull(orchData')) => StartsLookup
     /\ orchLoads' # orchLoads => (IsNull(orchData') /\ orchLoads' = orchLoads + 1)]_vars

\* the comparison data of the first load was stored, a lookup followed, and
\* the queries were dispatched a second time
C2_Witness ==
  /\ ~IsNull(orchLoad) /\ orchLoad.n = 2
  /\ \E t \in bg : t.n = 1
  /\ IsNull(orchData)

\* C3: the data displayed is that of the lookup submitted last.
C3_LatestLookupShown ==
  ~IsNull(data) => data.delegator.of = LatestStarted

\* C4: a new lookup leaves the earlier ones running, and once no lookup is in
\* flight the data and the subject are those of the lookup whose responses
\* completed last, whichever was submitted first.
C4_LastResolvedWins ==
  /\ [][calls' # calls =>
          \A i \in 1..calls : lookups'[i] = lookups[i]]_vars
  /\ []((\A i \in 1..MaxLookups : ~InFlight(i)) =>
          IF resolvedLast = 0 THEN IsNull(data)
          ELSE /\ ~IsNull(data)
               /\ data.delegator.of = resolvedLast
               /\ data.address = data.delegator.id
               /\ wallet = data.address)

\* two lookups overlapped, both completed, and the one submitted first was
\* the last to resolve: its data is displayed
C4_Witness ==
  /\ calls = 2
  /\ lookups[1].pc = "ok" /\ lookups[2].pc = "ok"
  /\ resolvedLast = 1
  /\ ~IsNull(data) /\ data.delegator.of = 1

\* C5: whenever a lookup fails (validation, name resolution, a request, no
\* delegator) the state after the failure has data = null and an error.
C5_FailureLeavesNoData ==
  [][\A i \in 1..MaxLookups :
       Fails(i) => (IsNull(data') /\ error' # MsgNone)]_vars

\* an address as C6 words it: 0x and 40 hexadecimal characters
WellFormedAddress(s) ==
  /\ Len(s) = 2 + AddrHexLen
  /\ SubSeq(s, 1, 2) = <<"0", "x">>
  /\ \A j \in 3..Len(s) : s[j] \in HexDigits

\* the input as C6 words it: neither an address after lowercasing nor a name
MalformedAsWritten(s) ==
  ~WellFormedAddress(toLowerCase(s)) /\ ~endsWith(s, DotEth)

\* the input as line 1651 reads it
Malformed(s) == trim(s) # <<>> /\ MalformedAsWritten(trim(s))

\* what a lookup that dispatched nothing leaves behind
NothingSent(i) ==
  /\ lookups[i].pc = "failed"
  /\ ~lookups[i].sent
  /\ lookups[i].ens = "none"

\* C6 as stated: a malformed input gives the validation error.
C6_MalformedRejected ==
  (last.op = "loadDelegator" /\ MalformedAsWritten(last.input)) =>
     (error = MsgInvalid /\ NothingSent(calls))

\* C6 amended: an input that is not blank and, once trimmed, is neither an
\* address after lowercasing nor a name ending in .eth gives the validation
\* error, and no request is dispatched: none of the lookup, none of the
\* comparison load.
C6_NonBlankMalformedRejected ==
  /\ []((last.op = "loadDelegator" /\ Malformed(last.input)) =>
          (error = MsgInvalid /\ ~loading /\ IsNull(data) /\ NothingSent(calls)))
  /\ [][(calls' # calls /\ Malformed(last'.input)) =>
          (orchLoads' = orchLoads /\ orchLoad' = orchLoad /\ bg' = bg)]_vars

\* a malformed input was submitted while the comparison tab was open
C6_Witness ==
  /\ last.op = "loadDelegator"
  /\ Malformed(last.input)
  /\ error = MsgInvalid
  /\ tab = "compare"

\* C7: the three queries of a lookup by name are dispatched only after the
\* name resolved to an address; when the resolution gives no address the
\* lookup ends in the error and dispatches nothing.
C7_ResolveBeforeQueries ==
  /\ [](\A i \in 1..MaxLookups :
          /\ lookups[i].pc = "ens" =>
               (~lookups[i].sent /\ lookups[i].q = IdleLookup.q)
          /\ lookups[i].ens \in {"noaddress", "error"} =>
               (lookups[i].pc = "failed" /\ ~lookups[i].sent)
          /\ (lookups[i].sent /\ lookups[i].ens # "none") =>
               lookups[i].ens = "address")
  /\ [][\A i \in 1..MaxLookups :
          (lookups[i].pc = "ens" /\ lookups'[i].ens = "noaddress") =>
             (error' = MsgENS /\ ~loading' /\ lookups'[i].pc = "failed")]_vars

\* a name that resolved to no address
C7_Witness ==
  \E i \in 1..MaxLookups :
    /\ lookups[i].ens = "noaddress"
    /\ lookups[i].pc = "failed"
    /\ error = MsgENS

\* C8: displayed data has the subject as its address and every field of it
\* comes from the responses of one lookup, which completed.
C8_DataOfOneLookup ==
  ~IsNull(data) =>
     /\ wallet = data.address
     /\ data.delegator.id = data.address
     /\ OfLookup(data, data.delegator.of)
     /\ data.bondedAmount = data.delegator.bondedAmount
     /\ lookups[data.delegator.of].pc = "ok"

\* the data of a second lookup replaced that of the first, for another address
C8_Witness ==
  /\ ~IsNull(data)
  /\ data.delegator.of = 2
  /\ lookups[1].pc = "ok"
  /\ wallet = AddrB

\* C9: a failed background fetch (names, sparklines) changes neither error
\* nor data nor loading nor orchData; the names are empty after a failed names
\* fetch; and the background fetches start only once orchData is populated.
C9_BackgroundFailureSilent ==
  [][/\ (last'.op \in {"batchResolveENS", "sparkline"} /\ bg' # bg /\ ~last'.ok) =>
          /\ UNCHANGED <<error, data, loading, orchData, orchLoading>>
          /\ last'.op = "batchResolveENS" => ensNames' = NoNames
     /\ (bg' \ bg # {}) => ~IsNull(orchData')]_vars

\* the sparkline fetch failed: the table is there, without sparklines
C9_Witness ==
  /\ last.op = "sparkline" /\ ~last.ok
  /\ ~IsNull(orchData)
  /\ \A j \in 1..Len(orchData.orchs) : IsNull(orchData.orchs[j].sparkline)
  /\ ~IsNull(data)
  /\ error = MsgNone

\* C10: the transcoders and protocol queries are dispatched only in a render
\* with the comparison tab active and data displayed, and never while an
\* earlier comparison load is in flight.
C10_CompareDispatch ==
  [][orchLoads' # orchLoads =>
       /\ tab' = "compare"
       /\ ~IsNull(data')
       /\ IsNull(orchLoad)
       /\ ~orchLoading
       /\ ~IsNull(orchLoad') /\ orchLoading']_vars

\* the comparison tab was opened on displayed data: the load is in flight
C10_Witness ==
  /\ ~IsNull(orchLoad)
  /\ orchLoading
  /\ tab = "compare"
  /\ ~IsNull(data)

\* the messages of the failures that are not a missing delegator
OtherMessages == {MsgNone, MsgInvalid, MsgENS, MsgGraphQL, MsgFetch}

\* C11: when the three queries of a lookup succeed and the profile has no
\* delegator, the lookup ends with the not-found message, which no other
\* failure uses, and data is null.
C11_NotFound ==
  [][(last'.op = "noDelegator" /\ lookups' # lookups) =>
       /\ error' = MsgNotFound
       /\ MsgNotFound \notin OtherMessages
       /\ ~loading'
       /\ IsNull(data')]_vars

\* C12: the mount effect starts a lookup for the address parameter of the
\* URL; the parameter is rewritten in the step in which a lookup succeeds,
\* to the subject that step sets, and in no other step: a lookup that fails
\* leaves it as it was.
C12_UrlFollowsSuccess ==
  /\ [][(~mounted /\ mounted' /\ trim(url.address) # <<>>) =>
          /\ calls' = 1
          /\ last' = [op |-> "loadDelegator", input |-> url.address]
          /\ lookups'[1].pc \in {"ens", "fetch", "failed"}
          /\ lookups'[1].pc = "fetch" =>
                lookups'[1].addr = toLowerCase(trim(url.address))]_vars
  /\ [][\A i \in 1..MaxLookups :
          /\ (lookups[i].pc = "fetch" /\ lookups'[i].pc = "ok") =>
                (url'.address = lookups[i].addr /\ wallet' = url'.address)
          /\ Fails(i) => url' = url]_vars
  /\ [][url' # url =>
          \E i \in 1..MaxLookups : lookups[i].pc = "fetch" /\ lookups'[i].pc = "ok"]_vars
  /\ [](wallet # <<>> => url.address = wallet)

\* the page was opened with an address in the URL, the lookup for it
\* succeeded and rewrote the parameter, and a later lookup failed
C12_Witness ==
  /\ url = [address |-> AddrA, wallet |-> AddrB]
  /\ wallet = AddrA
  /\ lookups[1].pc = "ok"
  /\ calls = 2 /\ lookups[2].pc = "failed"
  /\ error # MsgNone

\* ---------------------------------------------------------- the timeline
\* the responses the data on display was built from
Shown == last.op = "setData"

\* the entries of the timeline that come from one collection
Kinds ==
  [bondEvents |-> {"bond", "redelegate"}, unbondEvents |-> {"unbond"},
   rebondEvents |-> {"rebond"}, withdrawStakeEvents |-> {"withdraw"},
   withdrawFeesEvents |-> {"withdrawFees"}]

\* the place of a kind of entry in the order of the six loops
LoopOf(t) ==
  CASE t \in {"bond", "redelegate"} -> 1
    [] t = "unbond" -> 2
    [] t = "rebond" -> 3
    [] t = "withdraw" -> 4
    [] t = "withdrawFees" -> 5
    [] t = "claim" -> 6

\* how many members of the sequence s satisfy P
Count(s, P(_)) == Cardinality({j \in 1..Len(s) : P(s[j])})

\* C13: the timeline is ascending by timestamp and has exactly one entry
\* for each record of the five stake-event collections and of the claims:
\* per collection and timestamp as many entries as records, and as many
\* entries in all as the six collections have records.
C13_TimelineSortedComplete ==
  Shown =>
    LET ev == data.events
        src == last.evtData
        cl == last.earnData.earningsClaimedEvents
    IN /\ \A k \in 1..Len(ev) - 1 : ev[k].ts <= ev[k + 1].ts
       /\ Len(ev) = Len(src.bondEvents) + Len(src.unbondEvents)
                     + Len(src.rebondEvents) + Len(src.withdrawStakeEvents)
                     + Len(src.withdrawFeesEvents) + Len(cl)
       /\ \A ts \in Stamps :
            /\ \A c \in DOMAIN Kinds :
                 Count(ev, LAMBDA e : e.t \in Kinds[c] /\ e.ts = ts)
                   = Count(src[c], LAMBDA r : r.timestamp = ts)
            /\ Count(ev, LAMBDA e : e.t = "claim" /\ e.ts = ts)
                 = Count(cl, LAMBDA r : r.timestamp = ts)

\* a claim of timestamp 1 was moved in front of stake events of timestamp 2,
\* and two records of one timestamp are both there
C13_Witness ==
  /\ Shown
  /\ Len(data.events) >= 4
  /\ data.events[1].t = "claim"
  /\ data.events[Len(data.events)].t = "bond"
  /\ \E k \in 1..Len(data.events) - 1 : data.events[k].ts = data.events[k + 1].ts

\* what a record of bondEvents shows in the timeline, in the words of C15
ShownBond(r) ==
  <<r.additionalAmount,
    IF r.additionalAmount = Num(0) /\ ~IsNull(r.oldDelegate)
    THEN "redelegate" ELSE "bond">>

\* C14: entries of one timestamp are in the order of the loops that pushed
\* them (bond and redelegate, unbond, rebond, withdraw-stake, withdraw-fees,
\* and every claim behind them), and the entries of the bond events of one
\* timestamp are in the order the response listed those events.
C14_TiesKeepAppendOrder ==
  Shown =>
    LET ev == data.events
        bonds == last.evtData.bondEvents
    IN /\ \A k \in 1..Len(ev), m \in 1..Len(ev) :
            (k < m /\ ev[k].ts = ev[m].ts) => LoopOf(ev[k].t) <= LoopOf(ev[m].t)
       /\ \A ts \in Stamps :
            LET shown == SelectSeq(ev, LAMBDA e : LoopOf(e.t) = 1 /\ e.ts = ts)
                listed == SelectSeq(bonds, LAMBDA r : r.timestamp = ts)
            IN [j \in 1..Len(shown) |-> <<shown[j].amount, shown[j].t>>]
                 = [j \in 1..Len(listed) |-> ShownBond(listed[j])]

\* two different bond events, an unbond event and a claim share a timestamp
C14_Witness ==
  /\ Shown
  /\ \E k \in 1..Len(data.events) - 3 :
       /\ data.events[k].t = "redelegate"
       /\ data.events[k + 1].t = "bond"
       /\ data.events[k + 2].t = "unbond"
       /\ data.events[k + 3].ts = data.events[k].ts
       /\ data.events[Len(data.events)].t = "claim"
       /\ data.events[Len(data.events)].ts = data.events[k].ts

\* C15: a bond event shows as redelegate exactly when its additional amount
\* is zero and it has an old delegate: per timestamp, there are as many
\* redelegate entries as such events and as many bond entries as other bond
\* events, whether their amount is zero with no old delegate or not zero.
C15_RedelegateRule ==
  Shown =>
    LET ev == data.events
        bonds == last.evtData.bondEvents
    IN \A ts \in Stamps :
         /\ Count(ev, LAMBDA e : e.t = "redelegate" /\ e.ts = ts)
              = Count(bonds, LAMBDA r : /\ r.timestamp = ts
                                        /\ r.additionalAmount = Num(0)
                                        /\ ~IsNull(r.oldDelegate))
         /\ Count(ev, LAMBDA e : e.t = "bond" /\ e.ts = ts)
              = Count(bonds, LAMBDA r : /\ r.timestamp = ts
                                        /\ (r.additionalAmount # Num(0)
                                             \/ IsNull(r.oldDelegate)))
         /\ Count(ev, LAMBDA e : e.t = "bond" /\ e.ts = ts /\ e.amount = Num(0))
              = Count(bonds, LAMBDA r : /\ r.timestamp = ts
                                        /\ r.additionalAmount = Num(0)
                                        /\ IsNull(r.oldDelegate))

\* a move to another delegate next to a bond of amount zero with no old
\* delegate
C15_Witness ==
  /\ Shown
  /\ \E k \in 1..Len(data.events) : data.events[k].t = "redelegate"
  /\ \E k \in 1..Len(data.events) :
       data.events[k].t = "bond" /\ data.events[k].amount = Num(0)
  /\ \E j \in 1..Len(last.evtData.bondEvents) :
       IsNull(last.evtData.bondEvents[j].oldDelegate)

\* the claims of the response that the last step turned into data
Received == last.earnData.earningsClaimedEvents

\* C16: the rounds a claim covers are max(endRound - startRound + 1, 1):
\* the length of the range when it has one, 1 when startRound = endRound,
\* and 1 when endRound lies before startRound; never less than 1.
C16_RoundsCovered ==
  Shown =>
    /\ Len(data.claims) = Len(Received)
    /\ \A j \in 1..Len(Received) :
         LET sr == Received[j].startRound
             er == Received[j].endRound.id
             n == data.claims[j].rounds
         IN /\ n >= 1
            /\ sr = er => n = 1
            /\ er >= sr => n = er - sr + 1
            /\ er < sr => n = 1

\* a claim of one round and a claim whose range ends before it starts
C16_Witness ==
  /\ Shown
  /\ \E j \in 1..Len(Received) :
       Received[j].startRound = 100 /\ Received[j].endRound.id = 100
  /\ \E j \in 1..Len(Received) :
       Received[j].endRound.id < Received[j].startRound

\* the sum of a sequence of numbers, and of F over the sequence s
RECURSIVE SumOfNumbers(_)
SumOfNumbers(s) ==
  IF s = <<>> THEN Num(0) ELSE Plus(Head(s), SumOfNumbers(Tail(s)))

Total(s, F(_)) == SumOfNumbers([j \in 1..Len(s) |-> F(s[j])])

\* C17: the lifetime totals of a lookup are the sums over its claims of
\* the reward tokens, of the fees and of the rounds covered; a lookup with
\* no claims has 0 for the three of them and shows the dash for the average
\* per round, and a lookup with claims shows a finite average.
C17_LifetimeTotals ==
  Shown =>
    /\ earned = Total(Received, LAMBDA c : c.rewardTokens)
    /\ totalETH = Total(Received, LAMBDA c : c.fees)
    /\ Num(totalRounds) = Total(data.claims, LAMBDA c : Num(c.rounds))
    /\ Received = <<>> =>
         /\ earned = Num(0) /\ totalETH = Num(0) /\ totalRounds = 0
         /\ avgPerRound = [noData |-> TRUE]
    /\ Received # <<>> =>
         /\ "value" \in DOMAIN avgPerRound
         /\ IsFinite(avgPerRound.value)

\* a delegator that never claimed
C17_Witness ==
  /\ Shown
  /\ Received = <<>>
  /\ data.claims = <<>>
  /\ "noData" \in DOMAIN avgPerRound

\* earned / max(bonded - earned, 1) * 100, the ratio the claim C18 names
ReferenceROI(bonded, gained) ==
  LET rest == Minus(bonded, gained)
      base == IF Greater(rest, Num(1)) THEN rest ELSE Num(1)
  IN Ratio(gained.n * base.d * 100, gained.d * base.n)

\* C18 as written: for every bonded amount, zero included, the ROI is the
\* reference ratio of the earned amount to max(bonded - earned, 1), times 100.
C18_ROIForEveryBondedAmount ==
  Shown => roi = ReferenceROI(data.bondedAmount, data.earned)

\* C18: when the bonded amount is positive the ROI is earned / max(bonded -
\* earned, 1) * 100, the principal being clamped by max(., 1) only, so that
\* 50 bonded and 80 earned give 8000; when nothing is bonded the ROI is 0
\* whatever was earned.
C18_ROIWhenBonded ==
  Shown =>
    /\ Greater(data.bondedAmount, Num(0)) =>
         roi = ReferenceROI(data.bondedAmount, data.earned)
    /\ (data.bondedAmount = Num(50) /\ data.earned = Num(80)) => roi = Num(8000)
    /\ data.bondedAmount = Num(0) => roi = Num(0)

\* 50 bonded and 80 earned, in one claim
C18_Witness ==
  /\ Shown
  /\ data.bondedAmount = Num(50)
  /\ data.earned = Num(80)
  /\ Len(Received) = 1
  /\ roi = Num(8000)

\* x is a multiple of 1 / unit and at most half of 1 / unit away from y
RoundedTo(x, y, unit) ==
  /\ IsFinite(x) /\ IsFinite(y)
  /\ (x.n * unit) % x.d = 0
  /\ LET diff == Minus(x, y)
     IN 2 * unit * Abs(diff.n) <= diff.d

\* a <= b
AtMost(a, b) == ~Greater(a, b)

\* C19 as written: one point per claim, point j holds the sums of the
\* reward tokens and of the fees of the claims 1..j in the order received,
\* the series does not decrease, and its last point is the lifetime totals.
C19_RunningSums ==
  Shown =>
    /\ Len(cumData) = Len(Received)
    /\ \A j \in 1..Len(Received) :
         /\ cumData[j].lpt
              = Total(SubSeq(Received, 1, j), LAMBDA c : c.rewardTokens)
         /\ cumData[j].eth = Total(SubSeq(Received, 1, j), LAMBDA c : c.fees)
    /\ \A j \in 2..Len(cumData) :
         /\ AtMost(cumData[j - 1].lpt, cumData[j].lpt)
         /\ AtMost(cumData[j - 1].eth, cumData[j].eth)
    /\ Received # <<>> =>
         /\ cumData[Len(cumData)].lpt = earned
         /\ cumData[Len(cumData)].eth = totalETH

\* C19: one point per claim; point j holds the sum of the reward tokens of
\* the claims 1..j in the order received, rounded to 2 decimals, and the
\* sum of their fees, rounded to 5 decimals; the series does not decrease,
\* and its last point is the lifetime totals rounded in that way.
C19_RunningSumsRounded ==
  Shown =>
    /\ Len(cumData) = Len(Received)
    /\ \A j \in 1..Len(Received) :
         /\ RoundedTo(cumData[j].lpt,
                      Total(SubSeq(Received, 1, j), LAMBDA c : c.rewardTokens),
                      100)
         /\ RoundedTo(cumData[j].eth,
                      Total(SubSeq(Received, 1, j), LAMBDA c : c.fees), 100000)
    /\ \A j \in 2..Len(cumData) :
         /\ AtMost(cumData[j - 1].lpt, cumData[j].lpt)
         /\ AtMost(cumData[j - 1].eth, cumData[j].eth)
    /\ Received # <<>> =>
         /\ RoundedTo(cumData[Len(cumData)].lpt, earned, 100)
         /\ RoundedTo(cumData[Len(cumData)].eth, totalETH, 100000)

\* two claims whose sums have more decimals than the points keep
C19_Witness ==
  /\ Shown
  /\ Len(cumData) = 2
  /\ Greater(cumData[2].lpt, cumData[1].lpt)
  /\ cumData[2].lpt # earned
  /\ cumData[2].eth # totalETH

\* the last step was the setOrchData of line 1808
Compared == last.op = "setOrchData"

\* n / 1000000 of a whole number of millionths
Millionths(x) == Ratio(x.n, 1000000 * x.d)

\* C20: for every orchestrator, rewardAPY is (mintable / totalActiveStake)
\* * (1 - rewardCut / 1000000) * 365 * 100 when totalActiveStake > 0 and 0
\* otherwise, ethYieldPerLPT is (eth30d * feeShare / 1000000 / totalStake)
\* * 12 when totalStake > 0 and 0 otherwise, and both are finite numbers
\* for every response: nothing is divided by zero.
C20_YieldProjection ==
  Compared =>
    LET ts == last.tData.transcoders
        p == last.pData.protocol
        mintable == p.currentRound.mintableTokens
        active == p.totalActiveStake
    IN /\ Len(orchData.orchs) = Len(ts)
       /\ \A j \in 1..Len(ts) :
            LET o == orchData.orchs[j]
                t == ts[j]
            IN /\ o.id = t.id
               /\ IsFinite(o.rewardAPY)
               /\ IsFinite(o.ethYieldPerLPT)
               /\ IF active.n > 0
                  THEN o.rewardAPY
                         = Times(Times(Ratio(mintable.n * active.d,
                                             mintable.d * active.n),
                                       Minus(Num(1), Millionths(t.rewardCut))),
                                 Num(36500))
                  ELSE o.rewardAPY = Num(0)
               /\ IF t.totalStake.n > 0
                  THEN o.ethYieldPerLPT
                         = Times(Ratio(t.thirtyDayVolumeETH.n * t.totalStake.d,
                                       t.thirtyDayVolumeETH.d * t.totalStake.n),
                                 Times(Millionths(t.feeShare), Num(12)))
                  ELSE o.ethYieldPerLPT = Num(0)

\* an orchestrator with no stake in a protocol with no active stake, next
\* to one whose two yields are positive
C20_Witness ==
  /\ Compared
  /\ last.pData.protocol.totalActiveStake = Num(0)
  /\ last.tData.transcoders[1].totalStake = Num(0)
  /\ last.tData.transcoders[1].thirtyDayVolumeETH = Num(3)
  /\ orchData.orchs[1].ethYieldPerLPT = Num(0)
  /\ orchData.orchs[1].rewardAPY = Num(0)
  /\ Greater(orchData.orchs[2].ethYieldPerLPT, Num(0))

\* C21: for every orchestrator, isWorking is true exactly when its 30-day
\* ETH volume is greater than 0, and callingReward is true exactly when it
\* has a last reward round and that round is the protocol's current round.
C21_WorkingAndCalling ==
  Compared =>
    LET ts == last.tData.transcoders
        current == last.pData.protocol.currentRound.id
    IN \A j \in 1..Len(ts) :
         /\ orchData.orchs[j].isWorking <=> ts[j].thirtyDayVolumeETH.n > 0
         /\ orchData.orchs[j].callingReward
              <=> IF IsNull(ts[j].lastRewardRound) THEN FALSE
                  ELSE ts[j].lastRewardRound.id = current

\* an orchestrator without volume whose last reward round is an earlier
\* round, next to a working one that never called reward
C21_Witness ==
  /\ Compared
  /\ last.tData.transcoders[1].thirtyDayVolumeETH = Num(0)
  /\ last.tData.transcoders[1].lastRewardRound.id = 6
  /\ ~orchData.orchs[1].isWorking
  /\ ~orchData.orchs[1].callingReward
  /\ IsNull(last.tData.transcoders[2].lastRewardRound)
  /\ orchData.orchs[2].isWorking
  /\ ~orchData.orchs[2].callingReward

\* where the orchestrator id stands in the list orchs
PlaceOf(orchs, id) == CHOOSE j \in 1..Len(orchs) : orchs[j].id = id

\* C22: the ranked list holds the orchestrators of the loaded list that
\* pass the toggle (all of them, or the working ones), each once and as
\* loaded; it is ordered by the selected column, descending or ascending as
\* selected; and orchestrators with equal values in that column stand in
\* the order of the loaded list, in both directions.
C22_RankedList ==
  ~IsNull(orchData) =>
    LET loaded == orchData.orchs
        ranked == filteredOrchs
        passes == {j \in 1..Len(loaded) : orchFilter = "all" \/ loaded[j].isWorking}
    IN /\ Len(ranked) = Cardinality(passes)
       /\ {ranked[j] : j \in 1..Len(ranked)} = {loaded[j] : j \in passes}
       /\ \A j \in 1..Len(ranked), k \in 1..Len(ranked) :
            j < k =>
              LET a == ranked[j][orchSort.col]
                  b == ranked[k][orchSort.col]
              IN /\ orchSort.dir = "desc" => ~Greater(b, a)
                 /\ orchSort.dir = "asc" => ~Greater(a, b)
                 /\ a = b => PlaceOf(loaded, ranked[j].id)
                               < PlaceOf(loaded, ranked[k].id)

\* all three orchestrators, loaded as o3, o2, o1 and ranked by ascending
\* reward APY: o2 and o1 have the same, and o2 stays ahead
C22_Witness ==
  /\ CompareShown
  /\ orchFilter = "all"
  /\ orchSort = [col |-> "rewardAPY", dir |-> "asc"]
  /\ [j \in 1..Len(orchData.orchs) |-> orchData.orchs[j].id] = <<"o3", "o2", "o1">>
  /\ [j \in 1..Len(filteredOrchs) |-> filteredOrchs[j].id] = <<"o2", "o1", "o3">>
  /\ filteredOrchs[1].rewardAPY = filteredOrchs[2].rewardAPY

\* the last step was a click on Export CSV
Exported == last.op = "exportCSV"

\* the fields of a text between the separators sep
RECURSIVE Split(_, _)
Split(text, sep) ==
  LET at == {j \in 1..Len(text) : text[j] = sep}
  IN IF at = {} THEN <<text>>
     ELSE LET k == CHOOSE j \in at : \A m \in at : j <= m
          IN <<SubSeq(text, 1, k - 1)>> \o Split(SubSeq(text, k + 1, Len(text)), sep)

\* the file of an export lists the ranked list below the header row, every
\* line with as many fields as the header
RowsMatchHeader ==
  LET lines == Split(last.csv, "\n")
      ranked == filteredOrchs
  IN /\ Len(lines) = 1 + Len(ranked)
     /\ Split(lines[1], ",") = headers
     /\ \A j \in 1..Len(ranked) :
          LET fields == Split(lines[j + 1], ",")
          IN /\ fields[1] = <<ranked[j].id>>
             /\ Len(fields) = Len(Split(lines[1], ","))

\* C23: an export writes the filtered and sorted list, not the full one:
\* one header row, the same for every filter, sort and simulated stake, and
\* below it one row per orchestrator in display order, each row with as
\* many fields as the header.
C23_ExportRows == Exported => RowsMatchHeader

\* the exports made while no name of ensNames holds a comma or a line break
\* are as C23 says
ExportRowsOfPlainNames ==
  (Exported /\ \A id \in DOMAIN ensNames :
                 \A j \in 1..Len(ensNames[id]) : ensNames[id][j] \notin {",", "\n"})
    => RowsMatchHeader

\* the names of the columns in the header row of the exported file
ExportedColumns == Split(Split(last.csv, "\n")[1], ",")

\* C24 as written: the header row of an export names at least 12 columns.
C24_AtLeastTwelveColumns == Exported => Len(ExportedColumns) >= 12

\* C24: the header row of an export names exactly 11 columns, each with a
\* name of its own.
C24_ElevenColumns ==
  Exported =>
    LET columns == ExportedColumns
    IN /\ Len(columns) = 11
       /\ \A j \in 1..Len(columns) : columns[j] # <<>>
       /\ Cardinality({columns[j] : j \in 1..Len(columns)}) = Len(columns)

\* an export of a list of two orchestrators
C24_Witness ==
  /\ Exported
  /\ Len(last.shown) = 2
  /\ Len(Split(last.csv, "\n")) = 3
  /\ Len(ExportedColumns) = 11

\* the columns whose header does not sort
NotSorting == {"rank", "id", "estLPT", "estETH", "sparkline"}

\* C30: the sort state starts as rewardAPY descending and changes by header
\* clicks only: a click on the sorted column turns descending into
\* ascending and ascending into descending, a click on another sortable
\* column selects it descending, and a click on the rank, id, estimated
\* yield or sparkline column changes nothing.
C30_SortToggle ==
  /\ orchSort = [col |-> "rewardAPY", dir |-> "desc"]
  /\ [][/\ last'.op = "headerClick" =>
            LET col == last'.col
            IN /\ col \in NotSorting => orchSort' = orchSort
               /\ (col \notin NotSorting /\ col = orchSort.col
                    /\ orchSort.dir = "desc") =>
                     orchSort' = [col |-> col, dir |-> "asc"]
               /\ (col \notin NotSorting /\ col = orchSort.col
                    /\ orchSort.dir = "asc") =>
                     orchSort' = [col |-> col, dir |-> "desc"]
               /\ (col \notin NotSorting /\ col # orchSort.col) =>
                     orchSort' = [col |-> col, dir |-> "desc"]
        /\ orchSort' # orchSort => last'.op = "headerClick"]_vars

\* a second click on the header of the stake column
C30_Witness ==
  /\ last = [op |-> "headerClick", col |-> "stake"]
  /\ orchSort = [col |-> "stake", dir |-> "asc"]

\* C25: while a lookup is in flight, loading is true, whatever another
\* lookup did in between; so neither the dashboard (data && !loading) nor
\* the idle state is rendered while a lookup is pending.
C25_LoadingWhileInFlight ==
  (\E i \in 1..MaxLookups : InFlight(i)) => loading

\* C26: once no lookup is in flight, data and error are not both set: no
\* dashboard next to an error message, no error message next to data.
C26_DataOrError ==
  (\A i \in 1..MaxLookups : ~InFlight(i)) => (IsNull(data) \/ error = MsgNone)

\* C27: if every request settles, a loading that was set is cleared: loading
\* becomes false after every lookup and orchLoading after every comparison
\* load; the step in which a lookup returns, by success or by failure, is
\* one that leaves loading false, and likewise for a comparison load and
\* orchLoading.
C27_LoadingTerminates ==
  /\ loading ~> ~loading
  /\ orchLoading ~> ~orchLoading
  /\ [][/\ \A i \in 1..MaxLookups :
            (InFlight(i) /\ ~InFlight(i)') => ~loading'
        /\ (~IsNull(orchLoad) /\ IsNull(orchLoad')) => ~orchLoading']_vars

\* a lookup that failed and one that succeeded, a comparison load that
\* ended, and nothing loading
C27_Witness ==
  /\ lookups[1].pc = "failed"
  /\ lookups[1].sent
  /\ lookups[2].pc = "ok"
  /\ orchLoads > 0
  /\ IsNull(orchLoad)
  /\ ~loading
  /\ ~orchLoading

\* the state of the component, without the bookkeeping of the calls
ComponentState ==
  <<wallet, loading, error, data, tab, orchData, orchLoading, ensNames,
    protocolData, simStake, simCustom, orchFilter, orchSort>>

\* the steps of a lookup that fails: the one that starts a lookup and the
\* one in which a lookup fails leave wallet, tab and the simulated stake as
\* they were, and a submission of blank input leaves the whole state as it was
FailedLookupKeepsSubject ==
  [][/\ ((\E i \in 1..MaxLookups : Fails(i)) \/ last'.op = "loadDelegator")
          => UNCHANGED <<wallet, tab, simStake, simCustom>>
     /\ (last'.op = "loadDelegator" /\ trim(last'.input) = <<>>)
          => UNCHANGED ComponentState]_vars

\* C28: a failed lookup leaves wallet, tab and the simulated stake unchanged,
\* and blank input changes no state; so when a lookup fails after another one
\* succeeded, wallet still names the address of that one and data is null.
C28_FailedLookupFrame ==
  [][/\ ((\E i \in 1..MaxLookups : Fails(i)) \/ last'.op = "loadDelegator")
          => UNCHANGED <<wallet, tab, simStake, simCustom>>
     /\ (last'.op = "loadDelegator" /\ trim(last'.input) = <<>>)
          => UNCHANGED ComponentState
     /\ \A i, j \in 1..MaxLookups :
          (Fails(i) /\ lookups[j].pc = "ok")
            => (wallet' = wallet /\ wallet # <<>> /\ IsNull(data'))]_vars

\* a lookup succeeded, the next one failed: the address of the first is
\* still the subject, with an error and no data
SubjectWithoutData ==
  /\ lookups[1].pc = "ok"
  /\ lookups[2].pc = "failed"
  /\ wallet # <<>>
  /\ IsNull(data)
  /\ error # MsgNone
  /\ ~loading

\* an orchestrator record without its sparkline
WithoutSparkline(o) == [o EXCEPT !.sparkline = Null]

\* C29: a sparkline response, however late, leaves a null orchData null and
\* otherwise keeps the orchestrators of orchData, in their order, with every
\* field but sparkline as it was; it changes nothing else of the state.
C29_LateSparkline ==
  [][last'.op = "sparkline" =>
       /\ IsNull(orchData) <=> IsNull(orchData')
       /\ ~IsNull(orchData) =>
            /\ Len(orchData'.orchs) = Len(orchData.orchs)
            /\ \A j \in 1..Len(orchData.orchs) :
                 WithoutSparkline(orchData'.orchs[j])
                   = WithoutSparkline(orchData.orchs[j])
       /\ UNCHANGED <<wallet, loading, error, data, tab, orchLoading,
                      ensNames, protocolData, simStake, simCustom,
                      orchFilter, orchSort>>]_vars

\* the daily figures arrived after a newer lookup had reset orchData
C29_Witness ==
  /\ last = [op |-> "sparkline", ok |-> TRUE]
  /\ IsNull(orchData)
  /\ calls > 0

====
